---- MODULE Spec2Model ----
(***************************************************************************)
(* Model of the CNA-01 network-policy pipeline of fedrampgpt-ksi-checker:  *)
(* the unrestricted-access classifier, the security-group extractor, the   *)
(* inventory aggregator and the criteria evaluator.                        *)
(*                                                                         *)
(* Conventions.  A Python str that the code inspects character by          *)
(* character (protocol tokens, port strings, file and directory names,     *)
(* paths) is a sequence of one-letter strings; a str that is only compared *)
(* or stored (CIDRs, resource types and names) is a TLA+ string.  An       *)
(* "int | None" is a sequence of length at most one: <<>> is None and      *)
(* <<n>> is the integer n.                                                 *)
(***************************************************************************)
EXTENDS Integers, Sequences, FiniteSets, TLC

VARIABLES
    pc,             \* position of the run
    call,           \* last call of the two classifier functions and its results
    fs,             \* the workspace: directory -> sequence of files
    tf_paths,       \* TerraformDetection.tf_paths
    trigger_event,  \* ctx["trigger_event"]
    inventory,      \* NetworkInventory (source_files, security_groups)
    criteria,       \* evaluate_cna01: criterion id -> CNA01CriterionResult
    summary,        \* evaluate_cna01: CNA01Summary
    raised,         \* TRUE when an exception propagated out of the pipeline
    response,       \* the App: the last webhook request and the answer to it
    tasks,          \* the App: the background tasks process_workflow_run
    check_runs,     \* GitHub: the check runs of the repository
    api_calls       \* GitHub: the number of REST calls the App made

\* the variables of the action's pipeline and those of the App
cnaVars == <<pc, call, fs, tf_paths, trigger_event, inventory, criteria, summary, raised>>

appVars == <<response, tasks, check_runs, api_calls>>

vars == <<cnaVars, appVars>>

None == <<>>
Some(n) == <<n>>

(***************************************************************************)
(* Bounds of the model.                                                    *)
(***************************************************************************)
MaxCidrs == 1

MaxGroups == 2

MaxFiles == 2

MaxRules == 2

(***************************************************************************)
(* shared/constants_cna.py                                                 *)
(***************************************************************************)
UNRESTRICTED_CIDRS == {"0.0.0.0/0", "::/0"}

ALL_PROTOCOLS == {<<"-", "1">>, <<"a", "l", "l">>}

SENSITIVE_PORTS ==
    << [port |-> 22,    service |-> "SSH"],
       [port |-> 23,    service |-> "Telnet"],
       [port |-> 3389,  service |-> "RDP"],
       [port |-> 3306,  service |-> "MySQL"],
       [port |-> 5432,  service |-> "PostgreSQL"],
       [port |-> 1433,  service |-> "MSSQL"],
       [port |-> 1521,  service |-> "Oracle"],
       [port |-> 27017, service |-> "MongoDB"],
       [port |-> 6379,  service |-> "Redis"],
       [port |-> 9200,  service |-> "Elasticsearch"],
       [port |-> 5900,  service |-> "VNC"],
       [port |-> 5901,  service |-> "VNC"],
       [port |-> 5902,  service |-> "VNC"],
       [port |-> 11211, service |-> "Memcached"],
       [port |-> 2379,  service |-> "etcd"],
       [port |-> 2380,  service |-> "etcd"] >>

(***************************************************************************)
(* Python built-ins used by the code.                                      *)
(***************************************************************************)
UpperLetters ==
    << "A", "B", "C", "D", "E", "F", "G", "H", "I", "J", "K", "L", "M",
       "N", "O", "P", "Q", "R", "S", "T", "U", "V", "W", "X", "Y", "Z" >>

LowerLetters ==
    << "a", "b", "c", "d", "e", "f", "g", "h", "i", "j", "k", "l", "m",
       "n", "o", "p", "q", "r", "s", "t", "u", "v", "w", "x", "y", "z" >>

\* str.lower() on one character
LowerChar(c) ==
    IF \E i \in DOMAIN UpperLetters : UpperLetters[i] = c
    THEN LowerLetters[CHOOSE i \in DOMAIN UpperLetters : UpperLetters[i] = c]
    ELSE c

\* str.lower()
Lower(s) == [i \in DOMAIN s |-> LowerChar(s[i])]

\* set(xs) for a list xs
ToSet(xs) == {xs[i] : i \in DOMAIN xs}

(***************************************************************************)
(* network_inventory.py: the unrestricted-access classifier.               *)
(***************************************************************************)
has_unrestricted_cidr(cidr_blocks, ipv6_cidr_blocks) ==
    \/ ToSet(cidr_blocks) \cap UNRESTRICTED_CIDRS # {}
    \/ ToSet(ipv6_cidr_blocks) \cap UNRESTRICTED_CIDRS # {}

is_unrestricted_rule_NoLower(cidr_blocks, ipv6_cidr_blocks, from_port, to_port, protocol) ==
    IF ~has_unrestricted_cidr(cidr_blocks, ipv6_cidr_blocks) THEN FALSE
    ELSE IF protocol \in ALL_PROTOCOLS THEN TRUE
    ELSE IF from_port # None /\ to_port # None
         THEN \/ (from_port[1] = 0 /\ to_port[1] = 65535)
              \/ (from_port[1] = -1 \/ to_port[1] = -1)
         ELSE FALSE

is_unrestricted_rule(cidr_blocks, ipv6_cidr_blocks, from_port, to_port, protocol) ==
    IF ~has_unrestricted_cidr(cidr_blocks, ipv6_cidr_blocks) THEN FALSE
    ELSE IF Lower(protocol) \in ALL_PROTOCOLS THEN TRUE
    ELSE IF from_port # None /\ to_port # None
         THEN \/ (from_port[1] = 0 /\ to_port[1] = 65535)
              \/ (from_port[1] = -1 \/ to_port[1] = -1)
         ELSE FALSE

\* the "cidr" value of an exposure record:
\* list(set(cidr_blocks) & U) or list(set(ipv6_cidr_blocks) & U), as a set,
\* the order of a list built from a set being unspecified
exposed_cidr(cidr_blocks, ipv6_cidr_blocks) ==
    IF ToSet(cidr_blocks) \cap UNRESTRICTED_CIDRS # {}
    THEN ToSet(cidr_blocks) \cap UNRESTRICTED_CIDRS
    ELSE ToSet(ipv6_cidr_blocks) \cap UNRESTRICTED_CIDRS

exposure_record(entry, cidr_blocks, ipv6_cidr_blocks) ==
    [port |-> entry.port, service |-> entry.service,
     cidr |-> exposed_cidr(cidr_blocks, ipv6_cidr_blocks)]

RECURSIVE exposure_records(_, _, _)
\* one record, in table order, per entry of a sequence of table entries
exposure_records(entries, cidr_blocks, ipv6_cidr_blocks) ==
    IF entries = <<>> THEN <<>>
    ELSE <<exposure_record(Head(entries), cidr_blocks, ipv6_cidr_blocks)>>
         \o exposure_records(Tail(entries), cidr_blocks, ipv6_cidr_blocks)

check_sensitive_port_exposure_HalfOpen(cidr_blocks, ipv6_cidr_blocks, from_port, to_port, protocol) ==
    IF ~has_unrestricted_cidr(cidr_blocks, ipv6_cidr_blocks) THEN <<>>
    ELSE IF Lower(protocol) \in ALL_PROTOCOLS
         THEN exposure_records(SENSITIVE_PORTS, cidr_blocks, ipv6_cidr_blocks)
    ELSE IF from_port = None \/ to_port = None THEN <<>>
    ELSE LET InRange(entry) == from_port[1] <= entry.port /\ entry.port < to_port[1]
         IN  exposure_records(SelectSeq(SENSITIVE_PORTS, InRange),
                              cidr_blocks, ipv6_cidr_blocks)

check_sensitive_port_exposure(cidr_blocks, ipv6_cidr_blocks, from_port, to_port, protocol) ==
    IF ~has_unrestricted_cidr(cidr_blocks, ipv6_cidr_blocks) THEN <<>>
    ELSE IF Lower(protocol) \in ALL_PROTOCOLS
         THEN exposure_records(SENSITIVE_PORTS, cidr_blocks, ipv6_cidr_blocks)
    ELSE IF from_port = None \/ to_port = None THEN <<>>
    ELSE LET InRange(entry) == from_port[1] <= entry.port /\ entry.port <= to_port[1]
         IN  exposure_records(SelectSeq(SENSITIVE_PORTS, InRange),
                              cidr_blocks, ipv6_cidr_blocks)

(***************************************************************************)
(* More Python built-ins, on strings held as sequences of characters.      *)
(***************************************************************************)
Digits == <<"0", "1", "2", "3", "4", "5", "6", "7", "8", "9">>

IsDigitChar(c) == \E i \in DOMAIN Digits : Digits[i] = c

DigitValue(c) == (CHOOSE i \in DOMAIN Digits : Digits[i] = c) - 1

\* str.isdigit()
IsDigit(s) == s # <<>> /\ \A i \in DOMAIN s : IsDigitChar(s[i])

RECURSIVE DecimalValue(_)
DecimalValue(s) ==
    IF s = <<>> THEN 0
    ELSE DecimalValue(SubSeq(s, 1, Len(s) - 1)) * 10 + DigitValue(s[Len(s)])

\* int(s) for a str: ok = FALSE stands for ValueError
IntOf(s) ==
    IF IsDigit(s) THEN [ok |-> TRUE, value |-> DecimalValue(s)]
    ELSE IF s # <<>> /\ s[1] \in {"-", "+"} /\ IsDigit(Tail(s))
    THEN [ok |-> TRUE,
          value |-> IF s[1] = "-" THEN 0 - DecimalValue(Tail(s)) ELSE DecimalValue(Tail(s))]
    ELSE [ok |-> FALSE, value |-> 0]

RECURSIVE LStrip(_, _)
\* s.lstrip(c)
LStrip(s, c) == IF s # <<>> /\ s[1] = c THEN LStrip(Tail(s), c) ELSE s

\* c in s
Contains(s, c) == \E i \in DOMAIN s : s[i] = c

RECURSIVE Split(_, _)
\* s.split(c)
Split(s, c) ==
    IF ~Contains(s, c) THEN <<s>>
    ELSE LET i == CHOOSE k \in DOMAIN s : s[k] = c /\ \A j \in 1..(k - 1) : s[j] # c
         IN  <<SubSeq(s, 1, i - 1)>> \o Split(SubSeq(s, i + 1, Len(s)), c)

RECURSIVE DigitsOf(_)
DigitsOf(n) ==
    IF n < 10 THEN <<Digits[n + 1]>>
    ELSE DigitsOf(n \div 10) \o <<Digits[(n % 10) + 1]>>

\* str(n) for an int
StrOfInt(n) == IF n < 0 THEN <<"-">> \o DigitsOf(0 - n) ELSE DigitsOf(n)

\* str.upper() on one character
UpperChar(c) ==
    IF \E i \in DOMAIN LowerLetters : LowerLetters[i] = c
    THEN UpperLetters[CHOOSE i \in DOMAIN LowerLetters : LowerLetters[i] = c]
    ELSE c

\* str.upper()
Upper(s) == [i \in DOMAIN s |-> UpperChar(s[i])]

(***************************************************************************)
(* The parsed HCL mapping.  A field read with dict.get is a tagged value:  *)
(*   a port or a token:  [t, n, s]  t = "absent" | "int" | "str", s chars  *)
(*   a list of strings:  [t, s, l]  t = "absent" | "str" | "list"          *)
(*   a list of ports:    [t, s, l]  the same, s and the members of l chars *)
(***************************************************************************)
Absent == [t |-> "absent", n |-> 0, s |-> <<>>]
IntVal(n) == [t |-> "int", n |-> n, s |-> <<>>]
StrVal(s) == [t |-> "str", n |-> 0, s |-> s]

NoList == [t |-> "absent", s |-> "", l |-> <<>>]
OneStr(s) == [t |-> "str", s |-> s, l |-> <<>>]
ListOf(l) == [t |-> "list", s |-> "", l |-> l]

NoPorts == [t |-> "absent", s |-> <<>>, l |-> <<>>]
OnePort(s) == [t |-> "str", s |-> s, l |-> <<>>]
PortList(l) == [t |-> "list", s |-> <<>>, l |-> l]

(***************************************************************************)
(* network_inventory.py: the rule normalizers.  Every result carries ok;   *)
(* ok = FALSE says that the call raised.                                   *)
(***************************************************************************)
\* extract_security_group_rule, lines 175-184: from_port / to_port
aws_port(raw) ==
    CASE raw.t = "absent" -> [ok |-> TRUE, value |-> None]
      [] raw.t = "int"    -> [ok |-> TRUE, value |-> Some(raw.n)]
      [] raw.t = "str"    ->
            IF IsDigit(LStrip(raw.s, "-"))
            THEN [ok |-> IntOf(raw.s).ok, value |-> Some(IntOf(raw.s).value)]
            ELSE [ok |-> TRUE, value |-> None]

\* str(rule_config.get("protocol", "-1"))
aws_protocol(raw) ==
    CASE raw.t = "absent" -> <<"-", "1">>
      [] raw.t = "int"    -> StrOfInt(raw.n)
      [] raw.t = "str"    -> raw.s

\* rule_config.get(key, []) with a bare string wrapped in a list
string_list(raw) ==
    CASE raw.t = "absent" -> <<>>
      [] raw.t = "str"    -> <<raw.s>>
      [] raw.t = "list"   -> raw.l

extract_security_group_rule(rule_config) ==
    LET fp == aws_port(rule_config.from_port)
        tp == aws_port(rule_config.to_port)
    IN  [ok               |-> fp.ok /\ tp.ok,
         from_port        |-> fp.value,
         to_port          |-> tp.value,
         protocol         |-> aws_protocol(rule_config.protocol),
         cidr_blocks      |-> string_list(rule_config.cidr_blocks),
         ipv6_cidr_blocks |-> string_list(rule_config.ipv6_cidr_blocks)]

Rule(from_port, to_port, protocol, cidr_blocks, ipv6_cidr_blocks, is_unrestricted) ==
    [from_port |-> from_port, to_port |-> to_port, protocol |-> protocol,
     cidr_blocks |-> cidr_blocks, ipv6_cidr_blocks |-> ipv6_cidr_blocks,
     is_unrestricted |-> is_unrestricted]

\* IngressRule(...) / EgressRule(...) of an extracted AWS rule
aws_rule(x) ==
    Rule(x.from_port, x.to_port, x.protocol, x.cidr_blocks, x.ipv6_cidr_blocks,
         is_unrestricted_rule(x.cidr_blocks, x.ipv6_cidr_blocks,
                              x.from_port, x.to_port, x.protocol))

rule_exposure(r) ==
    check_sensitive_port_exposure(r.cidr_blocks, r.ipv6_cidr_blocks,
                                  r.from_port, r.to_port, r.protocol)

RECURSIVE Flatten(_)
\* the concatenation of a list of lists: what nested for-loops append
Flatten(ss) == IF ss = <<>> THEN <<>> ELSE Head(ss) \o Flatten(Tail(ss))

\* any_unrestricted with all() in place of any()
any_unrestricted_All(rules) == \A i \in DOMAIN rules : rules[i].is_unrestricted

\* any(r.is_unrestricted for r in rules)
any_unrestricted(rules) == \E i \in DOMAIN rules : rules[i].is_unrestricted

\* SecurityGroupInfo with both has_explicit flags set whenever one list has a rule
SecurityGroupInfo_EitherExplicit(resource_address, source_file, ingress_rules, egress_rules, sensitive_ports_exposed) ==
    [resource_address         |-> resource_address,
     source_file              |-> source_file,
     ingress_rules            |-> ingress_rules,
     egress_rules             |-> egress_rules,
     has_explicit_ingress     |-> Len(ingress_rules \o egress_rules) > 0,
     has_explicit_egress      |-> Len(ingress_rules \o egress_rules) > 0,
     has_unrestricted_ingress |-> any_unrestricted(ingress_rules),
     has_unrestricted_egress  |-> any_unrestricted(egress_rules),
     sensitive_ports_exposed  |-> sensitive_ports_exposed]

SecurityGroupInfo(resource_address, source_file, ingress_rules, egress_rules, sensitive_ports_exposed) ==
    [resource_address         |-> resource_address,
     source_file              |-> source_file,
     ingress_rules            |-> ingress_rules,
     egress_rules             |-> egress_rules,
     has_explicit_ingress     |-> Len(ingress_rules) > 0,
     has_explicit_egress      |-> Len(egress_rules) > 0,
     has_unrestricted_ingress |-> any_unrestricted(ingress_rules),
     has_unrestricted_egress  |-> any_unrestricted(egress_rules),
     sensitive_ports_exposed  |-> sensitive_ports_exposed]

\* _parse_security_group that looks for exposed ports in egress rules as well
_parse_security_group_EgressExposed(name, config, file_path, resource_type) ==
    LET ins  == [i \in DOMAIN config.ingress |-> extract_security_group_rule(config.ingress[i])]
        outs == [i \in DOMAIN config.egress |-> extract_security_group_rule(config.egress[i])]
        ingress_rules == [i \in DOMAIN ins |-> aws_rule(ins[i])]
        egress_rules  == [i \in DOMAIN outs |-> aws_rule(outs[i])]
        both == ingress_rules \o egress_rules
        exposed == Flatten([i \in DOMAIN both |-> rule_exposure(both[i])])
    IN  [ok |-> (\A i \in DOMAIN ins : ins[i].ok) /\ (\A i \in DOMAIN outs : outs[i].ok),
         sg |-> SecurityGroupInfo(<<resource_type, name>>, file_path,
                                  ingress_rules, egress_rules, exposed)]

\* _parse_security_group: [ok, sg]
_parse_security_group(name, config, file_path, resource_type) ==
    LET ins  == [i \in DOMAIN config.ingress |-> extract_security_group_rule(config.ingress[i])]
        outs == [i \in DOMAIN config.egress |-> extract_security_group_rule(config.egress[i])]
        ingress_rules == [i \in DOMAIN ins |-> aws_rule(ins[i])]
        egress_rules  == [i \in DOMAIN outs |-> aws_rule(outs[i])]
        exposed == Flatten([i \in DOMAIN ingress_rules |-> rule_exposure(ingress_rules[i])])
    IN  [ok |-> (\A i \in DOMAIN ins : ins[i].ok) /\ (\A i \in DOMAIN outs : outs[i].ok),
         sg |-> SecurityGroupInfo(<<resource_type, name>>, file_path,
                                  ingress_rules, egress_rules, exposed)]

\* _parse_azure_nsg, lines 432-441: destination_port_range
azure_ports(raw) ==
    LET port_range == IF raw.t = "absent" THEN <<"*">>
                      ELSE IF raw.t = "int" THEN StrOfInt(raw.n) ELSE raw.s
    IN  IF port_range = <<"*">>
        THEN [ok |-> TRUE, from_port |-> Some(0), to_port |-> Some(65535)]
        ELSE IF Contains(port_range, "-")
        THEN LET parts == Split(port_range, "-")
                 lo == IntOf(parts[1])
                 hi == IntOf(parts[2])
             IN  [ok |-> lo.ok /\ hi.ok,
                  from_port |-> Some(lo.value), to_port |-> Some(hi.value)]
        ELSE IF IsDigit(port_range)
        THEN [ok |-> TRUE, from_port |-> Some(IntOf(port_range).value),
              to_port |-> Some(IntOf(port_range).value)]
        ELSE [ok |-> TRUE, from_port |-> None, to_port |-> None]

\* rule.get("protocol", "*") with "*" replaced by "-1"
azure_protocol(raw) ==
    IF raw.t = "absent" \/ raw.s = <<"*">> THEN <<"-", "1">> ELSE raw.s

\* lines 447-457: source_address_prefix and source_address_prefixes
azure_cidr_blocks(rule) ==
    LET source == IF rule.source_address_prefix.t = "str"
                  THEN rule.source_address_prefix.s ELSE ""
        first  == IF source \in {"*", "Internet"} THEN <<"0.0.0.0/0">>
                  ELSE IF source # "" THEN <<source>> ELSE <<>>
        more   == IF rule.source_address_prefixes.t = "list"
                  THEN rule.source_address_prefixes.l ELSE <<>>
    IN  first \o more

\* lower_or_empty without .lower()
lower_or_empty_CaseSensitive(raw) == IF raw.t = "str" THEN raw.s ELSE <<>>

\* rule.get(key, "").lower()
lower_or_empty(raw) == IF raw.t = "str" THEN Lower(raw.s) ELSE <<>>

\* _parse_azure_nsg: [ok, sg]
_parse_azure_nsg(name, config, file_path) ==
    LET IsAllow(rule) == lower_or_empty(rule.access) = <<"a", "l", "l", "o", "w">>
        kept == SelectSeq(config.security_rule, IsAllow)
        ports == [i \in DOMAIN kept |-> azure_ports(kept[i].destination_port_range)]
        Canon(i) ==
            LET cidr_blocks == azure_cidr_blocks(kept[i])
                protocol == azure_protocol(kept[i].protocol)
            IN  [inbound |-> lower_or_empty(kept[i].direction)
                                = <<"i", "n", "b", "o", "u", "n", "d">>,
                 rule |-> Rule(ports[i].from_port, ports[i].to_port, protocol,
                               cidr_blocks, <<>>,
                               is_unrestricted_rule(cidr_blocks, <<>>, ports[i].from_port,
                                                    ports[i].to_port, protocol))]
        canon == [i \in DOMAIN kept |-> Canon(i)]
        IsInbound(c) == c.inbound
        IsOutbound(c) == ~c.inbound
        inbound == SelectSeq(canon, IsInbound)
        outbound == SelectSeq(canon, IsOutbound)
        ingress_rules == [i \in DOMAIN inbound |-> inbound[i].rule]
        egress_rules == [i \in DOMAIN outbound |-> outbound[i].rule]
        exposed == Flatten([i \in DOMAIN ingress_rules |-> rule_exposure(ingress_rules[i])])
    IN  [ok |-> \A i \in DOMAIN ports : ports[i].ok,
         sg |-> SecurityGroupInfo(<<"azurerm_network_security_group", name>>, file_path,
                                  ingress_rules, egress_rules, exposed)]

\* gcp_ports that reads the start of a range "A-B" for both bounds
gcp_ports_RangeStartOnly(port_spec) ==
    IF port_spec = None
    THEN [ok |-> TRUE, from_port |-> Some(0), to_port |-> Some(65535)]
    ELSE LET parts == Split(port_spec[1], "-")
             lo == IntOf(parts[1])
             hi == IntOf(parts[Len(parts)])
         IN  [ok |-> lo.ok /\ hi.ok, from_port |-> Some(lo.value), to_port |-> Some(lo.value)]

\* _parse_gcp_firewall, lines 551-559: one port spec of an allow block
gcp_ports(port_spec) ==
    IF port_spec = None
    THEN [ok |-> TRUE, from_port |-> Some(0), to_port |-> Some(65535)]
    ELSE IF Contains(port_spec[1], "-")
    THEN LET parts == Split(port_spec[1], "-")
             lo == IntOf(parts[1])
             hi == IntOf(parts[2])
         IN  [ok |-> lo.ok /\ hi.ok,
              from_port |-> Some(lo.value), to_port |-> Some(hi.value)]
    ELSE [ok |-> IntOf(port_spec[1]).ok,
          from_port |-> Some(IntOf(port_spec[1]).value),
          to_port |-> Some(IntOf(port_spec[1]).value)]

\* allow.get("protocol", "all") with "all" replaced by "-1"
gcp_protocol(raw) ==
    IF raw.t = "absent" \/ raw.s = <<"a", "l", "l">> THEN <<"-", "1">> ELSE raw.s

\* "ports if ports else [None]", a bare string wrapped in a list before
gcp_port_specs(raw) ==
    LET ports == CASE raw.t = "absent" -> <<>>
                   [] raw.t = "str"    -> <<raw.s>>
                   [] raw.t = "list"   -> raw.l
    IN  IF ports = <<>> THEN <<None>> ELSE [i \in DOMAIN ports |-> Some(ports[i])]

\* _parse_gcp_firewall: [ok, sg]
_parse_gcp_firewall(name, config, file_path) ==
    LET direction == IF config.direction.t = "str" THEN Upper(config.direction.s)
                     ELSE <<"I", "N", "G", "R", "E", "S", "S">>
        is_ingress == direction = <<"I", "N", "G", "R", "E", "S", "S">>
        cidr_blocks == IF is_ingress THEN string_list(config.source_ranges)
                       ELSE string_list(config.destination_ranges)
        OfAllow(allow) ==
            LET protocol == gcp_protocol(allow.protocol)
                specs == gcp_port_specs(allow.ports)
            IN  [i \in DOMAIN specs |->
                    LET pr == gcp_ports(specs[i])
                    IN  [ok |-> pr.ok,
                         rule |-> Rule(pr.from_port, pr.to_port, protocol, cidr_blocks, <<>>,
                                       is_unrestricted_rule(cidr_blocks, <<>>, pr.from_port,
                                                            pr.to_port, protocol))]]
        canon == Flatten([i \in DOMAIN config.allow |-> OfAllow(config.allow[i])])
        rules == [i \in DOMAIN canon |-> canon[i].rule]
        ingress_rules == IF is_ingress THEN rules ELSE <<>>
        egress_rules == IF is_ingress THEN <<>> ELSE rules
        exposed == Flatten([i \in DOMAIN ingress_rules |-> rule_exposure(ingress_rules[i])])
    IN  [ok |-> \A i \in DOMAIN canon : canon[i].ok,
         sg |-> SecurityGroupInfo(<<"google_compute_firewall", name>>, file_path,
                                  ingress_rules, egress_rules, exposed)]

\* the group a parser returned, as the list extract_security_groups appends to
one_group(r) == [ok |-> r.ok, groups |-> <<r.sg>>]

\* extract_security_groups, lines 243-273: the groups of one resource block
groups_of_block(block, file_path) ==
    CASE block.type = "aws_security_group" ->
            one_group(_parse_security_group(block.name, block.config, file_path,
                                            "aws_security_group"))
      [] block.type = "azurerm_network_security_group" ->
            one_group(_parse_azure_nsg(block.name, block.config, file_path))
      [] block.type = "google_compute_firewall" ->
            one_group(_parse_gcp_firewall(block.name, block.config, file_path))
      [] OTHER -> [ok |-> TRUE, groups |-> <<>>]

\* security_groups.extend(...) over a list of results: all the groups, in
\* order, and whether every call returned
extend_all(per) ==
    [ok |-> \A i \in DOMAIN per : per[i].ok,
     groups |-> Flatten([i \in DOMAIN per |-> per[i].groups])]

\* extract_security_groups: [ok, groups]
extract_security_groups(parsed, file_path) ==
    extend_all([i \in DOMAIN parsed.resource |->
                   groups_of_block(parsed.resource[i], file_path)])

(***************************************************************************)
(* cna01/evaluator.py: the criteria evaluator.                             *)
(*                                                                         *)
(* A CNA01Finding is [resource, issue, source_file, severity, details];    *)
(* issue holds the fixed part of the message, details is <<>> for None.    *)
(* A CNA01CriterionResult is [id, requirement, status, findings].          *)
(***************************************************************************)
CNA01_CRITERIA_DEFINITIONS == <<"CNA01-A", "CNA01-B", "CNA01-C", "CNA01-D">>

\* status_of that reports a criterion with findings as ERROR
status_of_ErrorOnFindings(findings) == IF findings = <<>> THEN "PASS" ELSE "ERROR"

\* "PASS" if not findings else "FAIL"
status_of(findings) == IF findings = <<>> THEN "PASS" ELSE "FAIL"

CriterionResult(id, status, findings) ==
    [id |-> id, requirement |-> "required", status |-> status, findings |-> findings]

\* evaluate_cna01_a: the findings one group contributes
findings_a(sg) ==
    [i \in 1..Len(sg.sensitive_ports_exposed) |->
        [resource    |-> sg.resource_address,
         issue       |-> "Sensitive port exposed",
         source_file |-> sg.source_file,
         severity    |-> "high",
         details     |-> <<sg.sensitive_ports_exposed[i]>>]]

evaluate_cna01_a_FirstRecordOnly(inv) ==
    LET one(sg) == IF sg.sensitive_ports_exposed = <<>> THEN <<>>
                   ELSE <<findings_a(sg)[1]>>
        findings == Flatten([i \in 1..Len(inv.security_groups) |->
                                one(inv.security_groups[i])])
    IN  CriterionResult("CNA01-A", status_of(findings), findings)

evaluate_cna01_a(inv) ==
    LET findings == Flatten([i \in 1..Len(inv.security_groups) |->
                                findings_a(inv.security_groups[i])])
    IN  CriterionResult("CNA01-A", status_of(findings), findings)

\* evaluate_cna01_b: the findings one group contributes
findings_b(sg) ==
    IF ~sg.has_explicit_ingress
    THEN << [resource    |-> sg.resource_address,
             issue       |-> "No ingress rules defined",
             source_file |-> sg.source_file,
             severity    |-> "high",
             details     |-> <<>>] >>
    ELSE <<>>

evaluate_cna01_b_ByRuleList(inv) ==
    LET one(sg) == IF sg.ingress_rules = <<>>
                   THEN findings_b([sg EXCEPT !.has_explicit_ingress = FALSE])
                   ELSE <<>>
        findings == Flatten([i \in 1..Len(inv.security_groups) |->
                                one(inv.security_groups[i])])
    IN  CriterionResult("CNA01-B", status_of(findings), findings)

evaluate_cna01_b(inv) ==
    LET findings == Flatten([i \in 1..Len(inv.security_groups) |->
                                findings_b(inv.security_groups[i])])
    IN  CriterionResult("CNA01-B", status_of(findings), findings)

\* evaluate_cna01_c: the finding for one unrestricted egress rule
finding_c_rule(sg, egress) ==
    LET cidrs == egress.cidr_blocks \o egress.ipv6_cidr_blocks
        IsOpen(c) == c \in {"0.0.0.0/0", "::/0"}
        unrestricted_cidrs == SelectSeq(cidrs, IsOpen)
    IN  [resource    |-> sg.resource_address,
         issue       |-> "Unrestricted egress",
         source_file |-> sg.source_file,
         severity    |-> "high",
         details     |-> << [cidr_blocks |-> unrestricted_cidrs,
                             protocol    |-> egress.protocol,
                             from_port   |-> egress.from_port,
                             to_port     |-> egress.to_port] >>]

finding_c_no_egress(sg) ==
    [resource    |-> sg.resource_address,
     issue       |-> "No egress rules defined",
     source_file |-> sg.source_file,
     severity    |-> "high",
     details     |-> <<>>]

findings_c_EveryEgressRule(sg) ==
    IF sg.has_unrestricted_egress
    THEN [i \in 1..Len(sg.egress_rules) |-> finding_c_rule(sg, sg.egress_rules[i])]
    ELSE IF ~sg.has_explicit_egress
    THEN <<finding_c_no_egress(sg)>>
    ELSE <<>>

\* findings_c that looks at the first egress rule of a group only
findings_c_FirstRuleOnly(sg) ==
    IF sg.has_unrestricted_egress
    THEN IF sg.egress_rules # <<>> /\ sg.egress_rules[1].is_unrestricted
         THEN <<finding_c_rule(sg, sg.egress_rules[1])>>
         ELSE <<>>
    ELSE IF ~sg.has_explicit_egress
    THEN <<finding_c_no_egress(sg)>>
    ELSE <<>>

\* evaluate_cna01_c: the findings one group contributes
findings_c(sg) ==
    IF sg.has_unrestricted_egress
    THEN LET IsUnrestricted(r) == r.is_unrestricted
             open == SelectSeq(sg.egress_rules, IsUnrestricted)
         IN  [i \in 1..Len(open) |-> finding_c_rule(sg, open[i])]
    ELSE IF ~sg.has_explicit_egress
    THEN <<finding_c_no_egress(sg)>>
    ELSE <<>>

evaluate_cna01_c(inv) ==
    LET findings == Flatten([i \in 1..Len(inv.security_groups) |->
                                findings_c(inv.security_groups[i])])
    IN  CriterionResult("CNA01-C", status_of(findings), findings)

evaluate_cna01_d_AlwaysPass(trigger) ==
    CriterionResult("CNA01-D", "PASS", <<>>)

evaluate_cna01_d(trigger) ==
    LET findings ==
            IF trigger # "schedule"
            THEN << [resource    |-> "workflow",
                     issue       |-> "Workflow not triggered by schedule",
                     source_file |-> ".github/workflows/fedramp-ksi-evidence.yml",
                     severity    |-> "medium",
                     details     |-> <<[trigger_event |-> trigger]>>] >>
            ELSE <<>>
    IN  CriterionResult("CNA01-D", status_of(findings), findings)

_build_error_result_AllFour ==
    LET error_finding ==
            [resource    |-> "network_inventory",
             issue       |-> "No security groups detected",
             source_file |-> "",
             severity    |-> "high",
             details     |-> <<>>]
        ids == ToSet(CNA01_CRITERIA_DEFINITIONS)
    IN  [criteria |-> [id \in ids |-> CriterionResult(id, "ERROR", <<error_finding>>)],
         summary  |-> [status |-> "ERROR", passed_criteria |-> 0, failed_criteria |-> 0,
                       total_criteria |-> Cardinality(ids),
                       security_groups_evaluated |-> 0,
                       security_groups_compliant |-> 0,
                       security_groups_non_compliant |-> 0]]

_build_error_result ==
    LET error_finding ==
            [resource    |-> "network_inventory",
             issue       |-> "No security groups detected",
             source_file |-> "",
             severity    |-> "high",
             details     |-> <<>>]
        ids == ToSet(CNA01_CRITERIA_DEFINITIONS) \ {"CNA01-D"}
    IN  [criteria |-> [id \in ids |-> CriterionResult(id, "ERROR", <<error_finding>>)],
         summary  |-> [status |-> "ERROR", passed_criteria |-> 0, failed_criteria |-> 0,
                       total_criteria |-> Cardinality(ids),
                       security_groups_evaluated |-> 0,
                       security_groups_compliant |-> 0,
                       security_groups_non_compliant |-> 0]]

is_compliant_IgnoresEgress(sg) ==
    /\ sg.sensitive_ports_exposed = <<>>
    /\ sg.has_explicit_ingress
    /\ ~sg.has_unrestricted_egress

is_compliant_IgnoresIngress(sg) ==
    /\ sg.sensitive_ports_exposed = <<>>
    /\ sg.has_explicit_egress
    /\ ~sg.has_unrestricted_egress

\* evaluate_cna01, lines 237-242
is_compliant(sg) ==
    /\ sg.sensitive_ports_exposed = <<>>
    /\ sg.has_explicit_ingress
    /\ sg.has_explicit_egress
    /\ ~sg.has_unrestricted_egress

\* evaluate_cna01: [criteria, summary]
evaluate_cna01(inv, trigger) ==
    IF inv.security_groups = <<>> THEN _build_error_result
    ELSE
    LET crit == [id \in ToSet(CNA01_CRITERIA_DEFINITIONS) |->
                    CASE id = "CNA01-A" -> evaluate_cna01_a(inv)
                      [] id = "CNA01-B" -> evaluate_cna01_b(inv)
                      [] id = "CNA01-C" -> evaluate_cna01_c(inv)
                      [] id = "CNA01-D" -> evaluate_cna01_d(trigger)]
        passed == Cardinality({id \in DOMAIN crit : crit[id].status = "PASS"})
        failed == Cardinality({id \in DOMAIN crit : crit[id].status = "FAIL"})
        sgs == inv.security_groups
        compliant_sgs == Cardinality({i \in DOMAIN sgs : is_compliant(sgs[i])})
        non_compliant_sgs == Cardinality({i \in DOMAIN sgs : ~is_compliant(sgs[i])})
        has_error == \E id \in DOMAIN crit : crit[id].status = "ERROR"
        has_fail == \E id \in DOMAIN crit : crit[id].status = "FAIL"
        overall_status == IF has_error THEN "ERROR"
                          ELSE IF has_fail THEN "FAIL" ELSE "PASS"
    IN  [criteria |-> crit,
         summary  |-> [status |-> overall_status,
                       passed_criteria |-> passed,
                       failed_criteria |-> failed,
                       total_criteria |-> Cardinality(DOMAIN crit),
                       security_groups_evaluated |-> Len(sgs),
                       security_groups_compliant |-> compliant_sgs,
                       security_groups_non_compliant |-> non_compliant_sgs]]

\* run_cna01, line 209: the criteria are evaluated on the extracted inventory
EvaluateCna01 ==
    /\ pc = "evaluate"
    /\ LET r == evaluate_cna01(inventory, trigger_event)
       IN  /\ criteria' = r.criteria
           /\ summary' = r.summary
    /\ pc' = "done"
    /\ UNCHANGED <<call, fs, tf_paths, trigger_event, inventory, raised>>
    /\ UNCHANGED appVars

(***************************************************************************)
(* The workspace.  A directory is the sequence of the path components      *)
(* below the root (the root is <<>>), a component and a file name are      *)
(* strings of characters.  fs maps every directory to its files, a file    *)
(* being [name, parsed] with parsed what hcl2.load returns for it:         *)
(* [ok, resource], ok = FALSE when the file does not parse.                *)
(***************************************************************************)
EXCLUDED_DIRS ==
    { <<".", "t", "e", "r", "r", "a", "f", "o", "r", "m">>,
      <<".", "g", "i", "t">>,
      <<"n", "o", "d", "e", "_", "m", "o", "d", "u", "l", "e", "s">>,
      <<"_", "_", "p", "y", "c", "a", "c", "h", "e", "_", "_">>,
      <<".", "v", "e", "n", "v">>,
      <<"v", "e", "n", "v">> }

Root == <<>>

Dirs ==
    { Root,
      << <<"n", "e", "t">> >>,
      << <<"n", "e", "t">>, <<"p", "r", "o", "d">> >>,
      << <<"a", "p", "p">> >>,
      << <<"v", "e", "n", "v">> >>,
      << <<".", "c", "i">> >> }

\* the characters of the model's strings in code-point order
CodePoints ==
    <<"*", "-", ".", "/">> \o Digits \o UpperLetters \o <<"_">> \o LowerLetters

CharRank(c) == CHOOSE i \in DOMAIN CodePoints : CodePoints[i] = c

RECURSIVE StrLess(_, _)
\* a < b for two str
StrLess(a, b) ==
    IF b = <<>> THEN FALSE
    ELSE IF a = <<>> THEN TRUE
    ELSE IF Head(a) = Head(b) THEN StrLess(Tail(a), Tail(b))
    ELSE CharRank(Head(a)) < CharRank(Head(b))

RECURSIVE Insert(_, _)
Insert(x, xs) ==
    IF xs = <<>> THEN <<x>>
    ELSE IF StrLess(x, Head(xs)) THEN <<x>> \o xs
    ELSE <<Head(xs)>> \o Insert(x, Tail(xs))

RECURSIVE sorted(_)
\* sorted(xs) for a list of str
sorted(xs) == IF xs = <<>> THEN <<>> ELSE Insert(Head(xs), sorted(Tail(xs)))

\* sorted(S) for a set of str
sorted_set(S) ==
    CHOOSE q \in [1..Cardinality(S) -> S] :
        \A i \in DOMAIN q : \A j \in DOMAIN q : i < j => StrLess(q[i], q[j])

RECURSIVE Join(_, _)
\* c.join(parts)
Join(parts, c) ==
    IF parts = <<>> THEN <<>>
    ELSE IF Len(parts) = 1 THEN parts[1]
    ELSE parts[1] \o <<c>> \o Join(Tail(parts), c)

\* s.endswith(suffix)
EndsWith(s, suffix) ==
    /\ Len(s) >= Len(suffix)
    /\ SubSeq(s, Len(s) - Len(suffix) + 1, Len(s)) = suffix

\* str(path.relative_to(root))
RelPath(d) == IF d = Root THEN <<".">> ELSE Join(d, "/")

\* root / p
PathOf(p) == IF p = <<".">> THEN Root ELSE Split(p, "/")

\* d not in EXCLUDED_DIRS and not d.startswith(".")
KeptDir(name) == name \notin EXCLUDED_DIRS /\ ~(name # <<>> /\ name[1] = ".")

Children(d) == {e \in Dirs : Len(e) = Len(d) + 1 /\ SubSeq(e, 1, Len(d)) = d}

Perms(S) ==
    {q \in [1..Cardinality(S) -> S] : \A i \in DOMAIN q : \A j \in DOMAIN q : i # j => q[i] # q[j]}

\* the orders in which the operating system may list the directories
ListingOrders == Perms({d \in Dirs : d # Root /\ \A i \in DOMAIN d : KeptDir(d[i])})

RECURSIVE Walk(_, _)
\* os.walk(d), top-down, with the excluded directory names pruned: the
\* directories in the order they are yielded
Walk(d, order) ==
    LET IsKeptChild(e) == e \in Children(d) /\ KeptDir(e[Len(e)])
        subdirs == SelectSeq(order, IsKeptChild)
    IN  <<d>> \o Flatten([i \in DOMAIN subdirs |-> Walk(subdirs[i], order)])

IsTfFile(file) == EndsWith(file.name, <<".", "t", "f">>)

\* the .tf files of a list of directories, as [dir, file], in walk order
TfFilesOf(dirs) ==
    Flatten([i \in DOMAIN dirs |->
                LET tf == SelectSeq(fs[dirs[i]], IsTfFile)
                IN  [j \in DOMAIN tf |-> [dir |-> dirs[i], file |-> tf[j]]]])

(***************************************************************************)
(* detect.py                                                               *)
(***************************************************************************)
\* scan_for_terraform: tf_paths
scan_for_terraform(order) ==
    LET found == TfFilesOf(Walk(Root, order))
        tf_dirs == {RelPath(found[i].dir) : i \in DOMAIN found}
    IN  sorted_set(tf_dirs)

\* main, line 312
ScanForTerraform ==
    /\ pc = "scan"
    /\ \E order \in ListingOrders : tf_paths' = scan_for_terraform(order)
    /\ pc' = "extract"
    /\ UNCHANGED <<call, fs, trigger_event, inventory, criteria, summary, raised>>
    /\ UNCHANGED appVars

(***************************************************************************)
(* network_inventory.py: the inventory aggregator.                         *)
(***************************************************************************)
\* extract_network_inventory, lines 956-960
scan_paths(paths) ==
    IF paths # <<>> THEN [i \in DOMAIN paths |-> PathOf(paths[i])] ELSE <<Root>>

\* lines 962-988: the .tf files the walks of the scan paths yield, as [dir, file]
walked_files(paths, order) ==
    LET Exists(d) == d \in Dirs
        existing == SelectSeq(scan_paths(paths), Exists)
    IN  TfFilesOf(Flatten([i \in DOMAIN existing |-> Walk(existing[i], order)]))

\* str(tf_file.relative_to(root))
rel_path(f) == Join(f.dir \o <<f.file.name>>, "/")

\* groups_of_file that lets the parse failure of a file propagate
groups_of_file_ParseErrorRaised(f) ==
    IF f.file.parsed.ok THEN extract_security_groups(f.file.parsed, rel_path(f))
    ELSE [ok |-> FALSE, groups |-> <<>>]

\* lines 978-986: the groups of one file, none when the file does not parse
groups_of_file(f) ==
    IF f.file.parsed.ok THEN extract_security_groups(f.file.parsed, rel_path(f))
    ELSE [ok |-> TRUE, groups |-> <<>>]

\* lines 996-1008: NetworkInventory(...)
NetworkInventory(found, r) ==
    [ok |-> r.ok,
     inventory |-> [source_files |-> sorted([k \in DOMAIN found |-> rel_path(found[k])]),
                    security_groups |-> r.groups]]

inventory_of(found) ==
    NetworkInventory(found, extend_all([k \in DOMAIN found |-> groups_of_file(found[k])]))

\* extract_network_inventory: [ok, inventory]
extract_network_inventory(paths, order) == inventory_of(walked_files(paths, order))

\* run_cna01, lines 199-209: an exception of the extraction ends the run
Extracted(r) ==
    IF r.ok
    THEN /\ inventory' = r.inventory
         /\ raised' = FALSE
         /\ pc' = "evaluate"
    ELSE /\ inventory' = inventory
         /\ raised' = TRUE
         /\ pc' = "done"

ExtractNetworkInventory ==
    /\ pc = "extract"
    /\ \E order \in ListingOrders : Extracted(extract_network_inventory(tf_paths, order))
    /\ UNCHANGED <<call, fs, tf_paths, trigger_event, criteria, summary>>
    /\ UNCHANGED appVars

(***************************************************************************)
(* Values of the variables a specification does not use.                   *)
(***************************************************************************)
NoCall ==
    [fn |-> "", cidr_blocks |-> <<>>, ipv6_cidr_blocks |-> <<>>,
     from_port |-> None, to_port |-> None, protocol |-> <<>>,
     unrestricted |-> FALSE, exposed |-> <<>>]

\* the App before the first delivery
AppIdle ==
    /\ response = [delivery |-> 0, request |-> None, status_code |-> 0, status |-> ""]
    /\ tasks = <<>>
    /\ check_runs = <<>>
    /\ api_calls = 0

NoFs == <<>>

EmptyInventory == [source_files |-> <<>>, security_groups |-> <<>>]

NoCriteria == [id \in {} |-> 0]

NoSummary ==
    [status |-> "", passed_criteria |-> 0, failed_criteria |-> 0,
     total_criteria |-> 0, security_groups_evaluated |-> 0,
     security_groups_compliant |-> 0, security_groups_non_compliant |-> 0]

(***************************************************************************)
(* SpecRule: the two classifier functions applied to every combination of  *)
(* arguments drawn from the sets below.                                    *)
(***************************************************************************)
SeqsUpTo(S, n) == UNION {[1..k -> S] : k \in 0..n}

Cidr4Values == {"0.0.0.0/0", "10.0.0.0/8", "::/0"}
Cidr6Values == {"::/0", "2001:db8::/32"}

PortValues == {-1, 0, 21, 22, 23, 443, 2380, 3389, 5901, 27017, 27018, 65535}
OptPorts == {None} \cup {Some(p) : p \in PortValues}

ProtocolValues ==
    { <<"-", "1">>, <<"a", "l", "l">>, <<"A", "L", "L">>, <<"A", "l", "l">>,
      <<"t", "c", "p">>, <<"u", "d", "p">>, <<"6">> }

InitRule ==
    /\ pc = "classify"
    /\ call = NoCall
    /\ fs = NoFs
    /\ tf_paths = <<>>
    /\ trigger_event = ""
    /\ inventory = EmptyInventory
    /\ criteria = NoCriteria
    /\ summary = NoSummary
    /\ raised = FALSE
    /\ AppIdle

CallIsUnrestrictedRule ==
    /\ pc = "classify"
    /\ \E c4 \in SeqsUpTo(Cidr4Values, MaxCidrs), c6 \in SeqsUpTo(Cidr6Values, MaxCidrs),
          fp \in OptPorts, tp \in OptPorts, proto \in ProtocolValues :
          call' = [fn |-> "is_unrestricted_rule",
                   cidr_blocks |-> c4, ipv6_cidr_blocks |-> c6,
                   from_port |-> fp, to_port |-> tp, protocol |-> proto,
                   unrestricted |-> is_unrestricted_rule(c4, c6, fp, tp, proto),
                   exposed |-> <<>>]
    /\ pc' = "classified"
    /\ UNCHANGED <<fs, tf_paths, trigger_event, inventory, criteria, summary, raised>>
    /\ UNCHANGED appVars

CallCheckSensitivePortExposure ==
    /\ pc = "classify"
    /\ \E c4 \in SeqsUpTo(Cidr4Values, MaxCidrs), c6 \in SeqsUpTo(Cidr6Values, MaxCidrs),
          fp \in OptPorts, tp \in OptPorts, proto \in ProtocolValues :
          call' = [fn |-> "check_sensitive_port_exposure",
                   cidr_blocks |-> c4, ipv6_cidr_blocks |-> c6,
                   from_port |-> fp, to_port |-> tp, protocol |-> proto,
                   unrestricted |-> FALSE,
                   exposed |-> check_sensitive_port_exposure(c4, c6, fp, tp, proto)]
    /\ pc' = "classified"
    /\ UNCHANGED <<fs, tf_paths, trigger_event, inventory, criteria, summary, raised>>
    /\ UNCHANGED appVars

NextRule == CallIsUnrestrictedRule \/ CallCheckSensitivePortExposure

SpecRule == InitRule /\ [][NextRule]_vars

(***************************************************************************)
(* SpecEval: evaluate_cna01 applied to every well-typed inventory of at    *)
(* most MaxGroups security groups, the derived fields of a group drawn     *)
(* independently of its rule lists.                                        *)
(***************************************************************************)
TriggerEvents == {"schedule", "push", "Schedule"}

AnyEgressLists ==
    { <<>>,
      <<Rule(Some(0), Some(0), <<"-", "1">>, <<"0.0.0.0/0">>, <<>>, TRUE)>> }

AnyExposureLists ==
    { <<>>,
      << exposure_record(SENSITIVE_PORTS[1], <<"0.0.0.0/0">>, <<>>),
         exposure_record(SENSITIVE_PORTS[3], <<"0.0.0.0/0">>, <<>>) >> }

AnyGroups ==
    [resource_address         : {<<"aws_security_group", "web">>, <<"aws_security_group", "db">>},
     source_file              : {<<"m", ".", "t", "f">>},
     ingress_rules            : {<<>>},
     egress_rules             : AnyEgressLists,
     has_explicit_ingress     : BOOLEAN,
     has_explicit_egress      : BOOLEAN,
     has_unrestricted_ingress : {FALSE},
     has_unrestricted_egress  : BOOLEAN,
     sensitive_ports_exposed  : AnyExposureLists]

InitEval ==
    /\ pc = "evaluate"
    /\ call = NoCall
    /\ fs = NoFs
    /\ tf_paths = <<>>
    /\ trigger_event \in TriggerEvents
    /\ inventory \in [source_files : {<< <<"m", ".", "t", "f">> >>},
                      security_groups : SeqsUpTo(AnyGroups, MaxGroups)]
    /\ criteria = NoCriteria
    /\ summary = NoSummary
    /\ raised = FALSE
    /\ AppIdle

NextEval == EvaluateCna01

SpecEval == InitEval /\ [][NextEval]_vars

(***************************************************************************)
(* Spec: a CNA-01 run (scan_for_terraform, extract_network_inventory,      *)
(* evaluate_cna01) on every workspace that holds at most MaxFiles files,   *)
(* at most one per directory, each file one of a few Terraform files.      *)
(***************************************************************************)
tcp == <<"t", "c", "p">>

AwsRuleConfig(from_port, to_port, protocol, cidr_blocks, ipv6_cidr_blocks) ==
    [from_port |-> from_port, to_port |-> to_port, protocol |-> protocol,
     cidr_blocks |-> cidr_blocks, ipv6_cidr_blocks |-> ipv6_cidr_blocks]

\* ingress { from_port = 22, to_port = 22, protocol = "tcp", cidr_blocks = ["0.0.0.0/0"] }
SshOpen == AwsRuleConfig(IntVal(22), IntVal(22), StrVal(tcp), ListOf(<<"0.0.0.0/0">>), NoList)

\* ingress { cidr_blocks = ["10.0.0.0/8"] }
Internal == AwsRuleConfig(Absent, Absent, Absent, ListOf(<<"10.0.0.0/8">>), NoList)

\* egress { cidr_blocks = ["0.0.0.0/0"], protocol = "-1" }
AllOpen == AwsRuleConfig(Absent, Absent, StrVal(<<"-", "1">>), ListOf(<<"0.0.0.0/0">>), NoList)

\* { from_port = 443, to_port = 443, protocol = "tcp", cidr_blocks = ["10.0.0.0/8"] }
Https == AwsRuleConfig(IntVal(443), IntVal(443), StrVal(tcp), ListOf(<<"10.0.0.0/8">>), NoList)

Block(type, name, config) == [type |-> type, name |-> name, config |-> config]

AwsGroup(name, ingress, egress) ==
    Block("aws_security_group", name, [ingress |-> ingress, egress |-> egress])

Parsed(resource) == [ok |-> TRUE, resource |-> resource]

\* a file on which hcl2.load raises: parse_tf_file returns None
Unparsable == [ok |-> FALSE, resource |-> <<>>]

SmallFiles ==
    { Parsed(<<AwsGroup("web", <<SshOpen>>, <<>>)>>),
      Parsed(<<AwsGroup("db", <<Internal>>, <<AllOpen>>)>>),
      Parsed(<<AwsGroup("web", <<Https>>, <<Https>>)>>),
      Parsed(<<Block("aws_vpc", "main", [cidr_block |-> "10.0.0.0/16"])>>),
      Unparsable }

FileNames ==
    { <<"m", ".", "t", "f">>, <<"m", ".", "t", "f", "v", "a", "r", "s">> }

\* the workspaces with one file, drawn from a set, in each directory of D
Workspaces(D, files) ==
    { [d \in Dirs |-> IF d \in D THEN <<a[d]>> ELSE <<>>] : a \in [D -> files] }

\* m.tf in the root and in two sibling directories
SiblingLayouts ==
    Workspaces({Root, << <<"n", "e", "t">> >>, << <<"a", "p", "p">> >>},
               [name : {<<"m", ".", "t", "f">>}, parsed : SmallFiles])

Layouts ==
    UNION { Workspaces(D, [name : FileNames, parsed : SmallFiles]) :
                D \in {E \in SUBSET Dirs : Cardinality(E) <= MaxFiles} }
    \cup SiblingLayouts

RunTriggers == {"schedule", "push"}

Init ==
    /\ pc = "scan"
    /\ call = NoCall
    /\ fs \in Layouts
    /\ tf_paths = <<>>
    /\ trigger_event \in RunTriggers
    /\ inventory = EmptyInventory
    /\ criteria = NoCriteria
    /\ summary = NoSummary
    /\ raised = FALSE
    /\ AppIdle

Next == ScanForTerraform \/ ExtractNetworkInventory \/ EvaluateCna01

Spec == Init /\ [][Next]_vars

(***************************************************************************)
(* SpecExtract: a CNA-01 run on a workspace of one file, main.tf in the    *)
(* root, that declares an AWS security group, an Azure network security    *)
(* group or a GCP firewall with at most MaxRules rules, the rules well     *)
(* typed and drawn from the sets below, or one of a few two-block files.   *)
(***************************************************************************)
AnyOpen == ListOf(<<"0.0.0.0/0">>)

AwsIngressConfigs ==
    { SshOpen,
      Internal,
      \* from_port = "22", to_port = "3389", cidr_blocks = "0.0.0.0/0"
      AwsRuleConfig(StrVal(<<"2", "2">>), StrVal(<<"3", "3", "8", "9">>), StrVal(tcp),
                    OneStr("0.0.0.0/0"), NoList),
      \* from_port = "ssh", to_port = "ssh"
      AwsRuleConfig(StrVal(<<"s", "s", "h">>), StrVal(<<"s", "s", "h">>), StrVal(tcp),
                    AnyOpen, NoList),
      \* from_port = "--5"
      AwsRuleConfig(StrVal(<<"-", "-", "5">>), IntVal(22), StrVal(tcp), AnyOpen, NoList),
      \* protocol = "tcp", cidr_blocks = ["0.0.0.0/0"], no ports
      AwsRuleConfig(Absent, Absent, StrVal(tcp), AnyOpen, NoList) }

AwsEgressConfigs ==
    { AllOpen,
      Https,
      \* protocol = "ALL", ipv6_cidr_blocks = ["::/0"]
      AwsRuleConfig(Absent, Absent, StrVal(<<"A", "L", "L">>), NoList, ListOf(<<"::/0">>)),
      \* tcp 0-65535 to ["10.0.0.0/8", "0.0.0.0/0"] and ["::/0"]
      AwsRuleConfig(IntVal(0), IntVal(65535), StrVal(tcp),
                    ListOf(<<"10.0.0.0/8", "0.0.0.0/0">>), ListOf(<<"::/0">>)) }

AzureRule(access, direction, destination_port_range, protocol, source_address_prefix, source_address_prefixes) ==
    [access |-> access, direction |-> direction,
     destination_port_range |-> destination_port_range, protocol |-> protocol,
     source_address_prefix |-> source_address_prefix,
     source_address_prefixes |-> source_address_prefixes]

AzureRules ==
    LET Allow == StrVal(<<"A", "l", "l", "o", "w">>)
        Deny == StrVal(<<"D", "e", "n", "y">>)
        Inbound == StrVal(<<"I", "n", "b", "o", "u", "n", "d">>)
        Outbound == StrVal(<<"O", "u", "t", "b", "o", "u", "n", "d">>)
        Tcp == StrVal(<<"T", "c", "p">>)
        Star == StrVal(<<"*">>)
    IN  { AzureRule(Allow, Inbound, StrVal(<<"2", "2">>), Tcp, OneStr("*"), NoList),
          AzureRule(StrVal(<<"a", "l", "l", "o", "w">>),
                    StrVal(<<"i", "n", "b", "o", "u", "n", "d">>),
                    StrVal(<<"2", "0", "-", "2", "5">>), Tcp, OneStr("Internet"), NoList),
          AzureRule(Deny, Inbound, StrVal(<<"a", "-", "b">>), Star, OneStr("*"), NoList),
          AzureRule(Allow, Inbound, StrVal(<<"a", "-", "b">>), Tcp, OneStr("*"), NoList),
          AzureRule(Allow, Outbound, Star, Star, OneStr("*"), NoList),
          AzureRule(Allow, Outbound, StrVal(<<"4", "4", "3">>), Tcp, OneStr("10.0.0.0/8"), NoList),
          AzureRule(Allow, Inbound, StrVal(<<"h", "t", "t", "p">>), Tcp, OneStr("*"), NoList),
          AzureRule(Allow, Inbound, Absent, Absent, NoList, AnyOpen),
          \* no destination_port_range
          AzureRule(Allow, Inbound, Absent, Tcp, OneStr("Internet"), NoList),
          \* source_address_prefixes = "0.0.0.0/0"
          AzureRule(Allow, Inbound, StrVal(<<"2", "2">>), Tcp, NoList, OneStr("0.0.0.0/0")),
          AzureRule(Deny, Outbound, Star, Star, OneStr("*"), NoList) }

AzureGroup(name, security_rule) ==
    Block("azurerm_network_security_group", name, [security_rule |-> security_rule])

GcpAllow(protocol, ports) == [protocol |-> protocol, ports |-> ports]

GcpAllows ==
    { GcpAllow(StrVal(tcp), PortList(<< <<"2", "2">> >>)),
      GcpAllow(StrVal(<<"a", "l", "l">>), NoPorts),
      GcpAllow(StrVal(tcp), PortList(<< <<"8", "0", "-", "9", "0">>, <<"3", "3", "8", "9">> >>)),
      GcpAllow(StrVal(tcp), PortList(<< <<"x">> >>)),
      GcpAllow(Absent, OnePort(<<"4", "4", "3">>)),
      GcpAllow(StrVal(<<"u", "d", "p">>), PortList(<< <<"5", "3", "-">> >>)) }

GcpDirections ==
    { Absent, StrVal(<<"I", "N", "G", "R", "E", "S", "S">>),
      StrVal(<<"E", "G", "R", "E", "S", "S">>), StrVal(<<"e", "g", "r", "e", "s", "s">>) }

GcpFirewall(name, direction, source_ranges, destination_ranges, allow) ==
    Block("google_compute_firewall", name,
          [direction |-> direction, source_ranges |-> source_ranges,
           destination_ranges |-> destination_ranges, allow |-> allow])

\* files of one block; the AWS groups have up to MaxRules ingress blocks and one
\* egress block less, longer egress lists come from the NSGs and TwoBlockFiles
OneBlockFiles ==
    { <<AwsGroup("web", i, e)>> :
          i \in SeqsUpTo(AwsIngressConfigs, MaxRules),
          e \in SeqsUpTo(AwsEgressConfigs, MaxRules - 1) }
    \cup { <<AzureGroup("web", r)>> : r \in SeqsUpTo(AzureRules, MaxRules) }
    \cup { <<GcpFirewall("web", d, s, t, a)>> :
               d \in GcpDirections, s \in {AnyOpen, ListOf(<<"10.0.0.0/8">>)},
               t \in {NoList, AnyOpen}, a \in SeqsUpTo(GcpAllows, MaxRules) }

TwoBlockFiles ==
    { <<AwsGroup("web", <<SshOpen>>, <<>>), AwsGroup("db", <<Internal>>, <<AllOpen, Https>>)>>,
      <<AwsGroup("web", <<Https>>, <<Https>>), AwsGroup("web", <<Https>>, <<Https>>)>>,
      \* ingress { from_port = -1, to_port = -1, protocol = "icmp", cidr_blocks = ["0.0.0.0/0"] }
      <<AwsGroup("web", <<AwsRuleConfig(IntVal(-1), IntVal(-1), StrVal(<<"i", "c", "m", "p">>),
                                        AnyOpen, NoList)>>, <<Https>>),
        AwsGroup("db", <<Internal>>, <<Https>>)>>,
      <<Block("aws_vpc", "main", [cidr_block |-> "10.0.0.0/16"]),
        AzureGroup("web", <<AzureRule(StrVal(<<"A", "l", "l", "o", "w">>),
                                      StrVal(<<"O", "u", "t", "b", "o", "u", "n", "d">>),
                                      StrVal(<<"*">>), StrVal(<<"*">>), OneStr("*"), NoList)>>)>> }

RichFiles == {Parsed(r) : r \in OneBlockFiles \cup TwoBlockFiles}

InitExtract ==
    /\ pc = "scan"
    /\ call = NoCall
    /\ fs \in Workspaces({Root}, [name : {<<"m", ".", "t", "f">>}, parsed : RichFiles])
    /\ tf_paths = <<>>
    /\ trigger_event \in RunTriggers
    /\ inventory = EmptyInventory
    /\ criteria = NoCriteria
    /\ summary = NoSummary
    /\ raised = FALSE
    /\ AppIdle

SpecExtract == InitExtract /\ [][Next]_vars

(***************************************************************************)
(* The GitHub App: app/webhook.py, app/main.py, app/checks.py.  A request  *)
(* body is a record; the signature header is None when absent and Some of  *)
(* the header string otherwise, the string being <<>> when empty and       *)
(* <<prefix, digest>> otherwise.  process_workflow_run is a task that      *)
(* yields at its awaits, so that tasks of several deliveries interleave.   *)
(***************************************************************************)
MaxDeliveries == 2

\* hmac.new(key, msg, hashlib.sha256).hexdigest(): a digest that differs when
\* the key or the message differs
hmac_sha256(key, msg) == <<key, msg>>

\* a verification that accepts every signature header that is present
verify_webhook_signature_AnySignature(payload, signature) ==
    signature # None /\ signature[1] # <<>>

\* verify_webhook_signature: TRUE when it returns, FALSE when it raises
verify_webhook_signature(payload, signature) ==
    IF signature = None \/ signature[1] = <<>> THEN FALSE
    ELSE LET expected == <<"sha256=", hmac_sha256("github_webhook_secret", payload)>>
         IN  expected = signature[1]

\* checks.py, lines 265-266 and 322-323: the status a manifest carries
manifest_status(manifest) ==
    IF manifest.summary # None /\ manifest.summary[1] # "empty"
    THEN manifest.summary_status
    ELSE IF manifest.status = None THEN Some("ERROR") ELSE manifest.status

\* a mapping that reports ERROR as a failure
status_to_conclusion_ErrorFails(status) ==
    IF status = Some("PASS") THEN "success"
    ELSE IF status \in {Some("FAIL"), Some("ERROR")} THEN "failure"
    ELSE "neutral"

status_to_conclusion(status) ==
    IF status = Some("PASS") THEN "success"
    ELSE IF status = Some("FAIL") THEN "failure"
    ELSE "neutral"

\* get_ksi_metadata(ksi_id)["check_run_name"]
check_run_name(ksi_id) ==
    CASE ksi_id = "KSI-MLA-05" -> <<"KSI-MLA-05", "Evaluate Configuration">>
      [] ksi_id = "KSI-CNA-01" -> <<"KSI-CNA-01", "Restrict Network Traffic">>
      [] OTHER -> <<ksi_id, "Evaluation">>

\* the workflow runs GitHub knows: the commit of each and the evaluation
\* manifests its evidence artifacts hold
Runs ==
    LET Manifest(summ, summ_status, top_status) ==
            [summary |-> summ, summary_status |-> summ_status, status |-> top_status]
        Cna(m) == [ksi_id |-> "KSI-CNA-01", manifest |-> m]
        Mla(m) == [ksi_id |-> "KSI-MLA-05", manifest |-> m]
    IN  << [head_sha |-> "abc", results |-> <<Cna(Manifest(Some("dict"), Some("PASS"), None))>>],
           [head_sha |-> "abc", results |-> <<Cna(Manifest(Some("dict"), Some("FAIL"), None)),
                                             Mla(Manifest(None, None, Some("PASS")))>>],
           [head_sha |-> "abc", results |-> <<Mla(Manifest(None, None, Some("ERROR")))>>],
           [head_sha |-> "abc", results |-> <<>>],
           [head_sha |-> "def", results |-> <<Cna(Manifest(Some("dict"), None, Some("PASS"))),
                                             Mla(Manifest(None, None, Some("WARN")))>>],
           [head_sha |-> "abc", results |-> <<Mla(Manifest(None, None, None)),
                                             Cna(Manifest(Some("empty"), None, Some("FAIL")))>>] >>

\* webhook, lines 156-200
Webhook ==
    LET Body(json, action, run_id) == [json |-> json, action |-> action, run_id |-> run_id]
        Bodies == {Body(TRUE, "completed", r) : r \in 0..Len(Runs)}
                      \cup {Body(TRUE, "requested", 1), Body(FALSE, "", 0)}
        Signed(key, body) == Some(<<"sha256=", hmac_sha256(key, body)>>)
        Forged(body) == { None, Some(<<>>), Signed("guess", body),
                          Signed("github_webhook_secret", Body(TRUE, "completed", 2)),
                          Some(<<"sha1=", hmac_sha256("github_webhook_secret", body)>>) }
        Requests ==
            {[body |-> b, signature |-> Signed("github_webhook_secret", b), event |-> e] :
                b \in Bodies, e \in {"workflow_run", "ping", "check_suite"}}
            \cup {[body |-> Body(TRUE, "completed", 1), signature |-> g,
                    event |-> "workflow_run"] : g \in Forged(Body(TRUE, "completed", 1))}
        Answer(req, status_code, status) ==
            response' = [delivery |-> response.delivery + 1, request |-> Some(req),
                         status_code |-> status_code, status |-> status]
    IN  /\ response.delivery < MaxDeliveries
        /\ \E req \in Requests :
              IF ~verify_webhook_signature(req.body, req.signature) \/ ~req.body.json
              THEN Answer(req, 401, "error") /\ tasks' = tasks
              ELSE IF req.event = "workflow_run"
              THEN /\ Answer(req, 202, "accepted")
                   /\ tasks' = Append(tasks, [payload |-> req.body, at |-> "start",
                                              results |-> <<>>, existing |-> None])
              ELSE IF req.event = "ping"
              THEN Answer(req, 200, "pong") /\ tasks' = tasks
              ELSE Answer(req, 200, "ok") /\ tasks' = tasks
        /\ UNCHANGED <<check_runs, api_calls>>
        /\ UNCHANGED cnaVars

\* process_workflow_run, lines 67-105: up to the list of KSI results
ProcessWorkflowRun ==
    \E t \in DOMAIN tasks :
        /\ tasks[t].at = "start"
        /\ LET payload == tasks[t].payload
               Done(calls) == /\ tasks' = [tasks EXCEPT ![t].at = "done"]
                              /\ api_calls' = api_calls + calls
           IN  IF payload.action # "completed" THEN Done(0)
               ELSE IF payload.run_id = 0 THEN Done(0)
               ELSE IF Runs[payload.run_id].results = <<>> THEN Done(1)
               ELSE /\ tasks' = [tasks EXCEPT ![t].at = "find",
                                              ![t].results = Runs[payload.run_id].results]
                    /\ api_calls' = api_calls + 2 + Len(Runs[payload.run_id].results)
        /\ UNCHANGED <<response, check_runs>>
        /\ UNCHANGED cnaVars

\* process_workflow_run, lines 119-121, with find_existing_check_run: the
\* check runs of the commit with the check name of the KSI, the first of them
FindExistingCheckRun ==
    \E t \in DOMAIN tasks :
        /\ tasks[t].at = "find"
        /\ LET head_sha == Runs[tasks[t].payload.run_id].head_sha
               name == check_run_name(Head(tasks[t].results).ksi_id)
               found == {i \in DOMAIN check_runs :
                            check_runs[i].head_sha = head_sha /\ check_runs[i].name = name}
           IN  \E existing \in IF found = {} THEN {None} ELSE {Some(i) : i \in found} :
                   tasks' = [tasks EXCEPT ![t].at = "act", ![t].existing = existing]
        /\ api_calls' = api_calls + 1
        /\ UNCHANGED <<response, check_runs>>
        /\ UNCHANGED cnaVars

\* process_workflow_run, lines 123-148, with create_check_run / update_check_run
CreateOrUpdateCheckRun ==
    \E t \in DOMAIN tasks :
        /\ tasks[t].at = "act"
        /\ LET result == Head(tasks[t].results)
               conclusion == status_to_conclusion(manifest_status(result.manifest))
           IN  IF tasks[t].existing # None
               THEN check_runs' = [check_runs EXCEPT ![tasks[t].existing[1]] =
                                      [@ EXCEPT !.status = "completed",
                                                !.conclusion = conclusion,
                                                !.output = result.manifest]]
               ELSE check_runs' = Append(check_runs,
                                         [name |-> check_run_name(result.ksi_id),
                                          head_sha |-> Runs[tasks[t].payload.run_id].head_sha,
                                          status |-> "completed",
                                          conclusion |-> conclusion,
                                          output |-> result.manifest])
        /\ tasks' = [tasks EXCEPT ![t].results = Tail(@), ![t].existing = None,
                                  ![t].at = IF Len(tasks[t].results) > 1 THEN "find" ELSE "done"]
        /\ api_calls' = api_calls + 1
        /\ UNCHANGED response
        /\ UNCHANGED cnaVars

InitApp ==
    /\ pc = "serve"
    /\ call = NoCall
    /\ fs = NoFs
    /\ tf_paths = <<>>
    /\ trigger_event = ""
    /\ inventory = EmptyInventory
    /\ criteria = NoCriteria
    /\ summary = NoSummary
    /\ raised = FALSE
    /\ AppIdle

NextApp == Webhook \/ ProcessWorkflowRun \/ FindExistingCheckRun \/ CreateOrUpdateCheckRun

SpecApp == InitApp /\ [][NextApp]_vars

(***************************************************************************)
(* The MLA-05 action: action/src/evaluate.py and action/src/evidence.py,   *)
(* with the CNA-01 builder of action/src/ksi/cna/cna01/evidence.py, whose  *)
(* methods are the same but for the directory name.  A criterion result is *)
(* [id, status, reason]; a path is the tuple of its components; a builder  *)
(* carries files_written, the files list written into manifest.json, the   *)
(* paths of the lines of hashes.sha256, the names in the zip, and a log of *)
(* every file operation in the order it happened.                          *)
(***************************************************************************)
MaxCriteria == 3

\* a status rule under which FAIL wins over ERROR
compute_overall_status_FailFirst(criterion_results) ==
    LET bad == SelectSeq(criterion_results, LAMBDA c : c.status \in {"ERROR", "FAIL"})
        reasons == [i \in 1..Len(bad) |-> <<bad[i].id, bad[i].reason>>]
    IN  IF \E i \in DOMAIN criterion_results : criterion_results[i].status = "FAIL"
        THEN [status |-> "FAIL", reasons |-> reasons]
        ELSE IF \E i \in DOMAIN criterion_results : criterion_results[i].status = "ERROR"
        THEN [status |-> "ERROR", reasons |-> reasons]
        ELSE [status |-> "PASS", reasons |-> <<"All criteria passed.">>]

\* EvidencePackBuilder.compute_overall_status; a reason f"{c.id}: {c.reason}" is
\* the pair of its two parts
compute_overall_status(criterion_results) ==
    LET has_error == \E i \in DOMAIN criterion_results : criterion_results[i].status = "ERROR"
        has_fail == \E i \in DOMAIN criterion_results : criterion_results[i].status = "FAIL"
        bad == SelectSeq(criterion_results, LAMBDA c : c.status \in {"ERROR", "FAIL"})
        reasons == [i \in 1..Len(bad) |-> <<bad[i].id, bad[i].reason>>]
    IN  IF has_error THEN [status |-> "ERROR", reasons |-> reasons]
        ELSE IF has_fail THEN [status |-> "FAIL", reasons |-> reasons]
        ELSE [status |-> "PASS", reasons |-> <<"All criteria passed.">>]

\* get_terraform_version.  env.version_json and env.version_text are what
\* "terraform version -json" and "terraform version" do.  json is a local name
\* bound by the import that follows a return code of 0, so that matching an
\* exception of the first subprocess.run against json.JSONDecodeError raises
\* UnboundLocalError.
get_terraform_version(env) ==
    IF env.version_json \in {"not_found", "timeout"}
    THEN [raised |-> TRUE, version |-> None, invoked |-> <<"version -json">>]
    ELSE IF env.version_json = "version"
    THEN [raised |-> FALSE, version |-> Some("1.6.0"), invoked |-> <<"version -json">>]
    ELSE IF env.version_json = "no_key"
    THEN [raised |-> FALSE, version |-> None, invoked |-> <<"version -json">>]
    ELSE [raised |-> FALSE,
          version |-> IF env.version_text = "version" THEN Some("1.6.0") ELSE None,
          invoked |-> <<"version -json", "version">>]

\* an evaluation that validates whatever init did
evaluate_terraform_AlwaysValidates(env) ==
    LET v == get_terraform_version(env)
    IN  IF v.raised \/ v.version = None
        THEN [raised |-> v.raised, invoked |-> v.invoked, success |-> FALSE,
              terraform_version |-> None, init_success |-> FALSE, validate_success |-> FALSE]
        ELSE [raised |-> FALSE, invoked |-> v.invoked \o <<"init", "validate">>,
              success |-> env.validate = "ok", terraform_version |-> v.version,
              init_success |-> env.init = "ok", validate_success |-> env.validate = "ok"]

\* evaluate_terraform, with run_terraform_init and run_terraform_validate
evaluate_terraform(env) ==
    LET v == get_terraform_version(env)
        init_success == env.init = "ok"
        validate_success == env.validate = "ok"
    IN  IF v.raised \/ v.version = None
        THEN [raised |-> v.raised, invoked |-> v.invoked, success |-> FALSE,
              terraform_version |-> None, init_success |-> FALSE, validate_success |-> FALSE]
        ELSE IF ~init_success
        THEN [raised |-> FALSE, invoked |-> v.invoked \o <<"init">>, success |-> FALSE,
              terraform_version |-> v.version, init_success |-> FALSE,
              validate_success |-> FALSE]
        ELSE [raised |-> FALSE, invoked |-> v.invoked \o <<"init", "validate">>,
              success |-> validate_success, terraform_version |-> v.version,
              init_success |-> TRUE, validate_success |-> validate_success]

\* write_json_file
write_json_file(b, filename, subdir) ==
    LET written_path == IF subdir = "" THEN <<"evidence", b.ksi, filename>>
                    ELSE <<"evidence", b.ksi, subdir, filename>>
    IN  [b EXCEPT !.log = Append(@, [op |-> "write", path |-> written_path]),
                  !.files_written = Append(@, written_path)]

\* write_manifest
write_manifest(b) ==
    write_json_file([b EXCEPT !.files = b.files_written], "manifest.json", "")

\* a write_hashes that leaves manifest.json out
write_hashes_WithoutManifest(b) ==
    LET hashed == SelectSeq(b.files_written, LAMBDA p : p[Len(p)] # "manifest.json")
        hashes_path == <<"evidence", b.ksi, "hashes.sha256">>
    IN  [b EXCEPT !.hashes = hashed,
                  !.log = @ \o [i \in 1..Len(hashed) |-> [op |-> "hash", path |-> hashed[i]]]
                            \o <<[op |-> "write", path |-> hashes_path]>>,
                  !.files_written = Append(@, hashes_path)]

\* write_hashes: a line for every file of files_written that exists
write_hashes(b) ==
    LET exists(p) == \E i \in DOMAIN b.log : b.log[i] = [op |-> "write", path |-> p]
        hashed == SelectSeq(b.files_written, exists)
        hashes_path == <<"evidence", b.ksi, "hashes.sha256">>
    IN  [b EXCEPT !.hashes = hashed,
                  !.log = @ \o [i \in 1..Len(hashed) |-> [op |-> "hash", path |-> hashed[i]]]
                            \o <<[op |-> "write", path |-> hashes_path]>>,
                  !.files_written = Append(@, hashes_path)]

\* create_zip: every file of files_written that exists, then the zip is on disk
create_zip(b) ==
    LET exists(p) == \E i \in DOMAIN b.log : b.log[i] = [op |-> "write", path |-> p]
        zipped == SelectSeq(b.files_written, exists)
    IN  [b EXCEPT !.zip = zipped,
                  !.log = @ \o [i \in 1..Len(zipped) |-> [op |-> "zip", path |-> zipped[i]]]
                            \o <<[op |-> "write", path |-> <<"artifact.zip">>]>>]

\* EvidencePackBuilder(output_dir) / CNA01EvidencePackBuilder(output_dir)
NewBuilder(ksi) ==
    [ksi |-> ksi, files_written |-> <<>>, files |-> <<>>, hashes |-> <<>>, zip |-> <<>>,
     log |-> <<>>]

\* build_evidence_pack, with compute_criteria, write_evaluation_manifest and
\* write_results_summary; eval_result is None or Some of its success flag
build_evidence_pack(detected, tf_inventory, eval_result, event) ==
    LET Criterion(id, status) == [id |-> id, status |-> status, reason |-> "reason"]
        criterion_results ==
            << Criterion("MLA05-A", IF detected THEN "PASS" ELSE "FAIL"),
               Criterion("MLA05-B", IF eval_result = None THEN "SKIP"
                                    ELSE IF eval_result[1] THEN "PASS" ELSE "ERROR"),
               Criterion("MLA05-C", IF event = "schedule" THEN "PASS" ELSE "FAIL"),
               Criterion("MLA05-D", "PASS") >>
        b1 == write_json_file(NewBuilder("ksi-mla-05"), "collected_at.json", "")
        b2 == write_json_file(b1, "scope.json", "")
        b3 == write_json_file(b2, "tools.json", "")
        b4 == write_json_file(b3, "terraform_detection.json", "declared")
        b5 == IF tf_inventory THEN write_json_file(b4, "terraform_inventory.json", "declared")
              ELSE b4
        b6 == write_json_file(b5, "evaluation_manifest.json", "")
        b7 == create_zip(write_hashes(write_manifest(b6)))
    IN  [builder |-> [b7 EXCEPT !.log = Append(@, [op |-> "write", path |-> <<"results.json">>])],
         status |-> compute_overall_status(criterion_results).status]

\* build_cna01_evidence_pack
build_cna01_evidence_pack(summary_status) ==
    LET b1 == write_json_file(NewBuilder("ksi-cna-01"), "collected_at.json", "")
        b2 == write_json_file(b1, "scope.json", "")
        b3 == write_json_file(b2, "tools.json", "")
        b4 == write_json_file(b3, "network_inventory.json", "declared")
        b5 == write_json_file(b4, "evaluation_manifest.json", "")
    IN  [builder |-> create_zip(write_hashes(write_manifest(b5))),
         status |-> summary_status]

CallComputeOverallStatus ==
    /\ pc = "call"
    /\ \E n \in 0..MaxCriteria :
          \E statuses \in [1..n -> {"PASS", "FAIL", "ERROR", "SKIP"}] :
              LET cs == [i \in 1..n |->
                                  [id |-> <<"A", "B", "C", "D", "E">>[i],
                                   status |-> statuses[i], reason |-> "reason"]]
              IN  call' = [fn |-> "compute_overall_status", criteria |-> cs,
                           result |-> compute_overall_status(cs)]
    /\ pc' = "returned"
    /\ UNCHANGED <<fs, tf_paths, trigger_event, inventory, criteria, summary, raised>>
    /\ UNCHANGED appVars

CallEvaluateTerraform ==
    /\ pc = "call"
    /\ \E vj \in {"not_found", "timeout", "nonzero", "bad_json", "no_key", "version"},
          vt \in {"not_found", "nonzero", "other", "version"},
          i \in {"ok", "nonzero", "timeout"}, v \in {"ok", "nonzero", "timeout"} :
          LET env == [version_json |-> vj, version_text |-> vt, init |-> i, validate |-> v]
          IN  call' = [fn |-> "evaluate_terraform", env |-> env,
                       result |-> evaluate_terraform(env)]
    /\ pc' = "returned"
    /\ UNCHANGED <<fs, tf_paths, trigger_event, inventory, criteria, summary, raised>>
    /\ UNCHANGED appVars

CallBuildEvidencePack ==
    /\ pc = "call"
    /\ \E detected \in BOOLEAN, inv \in BOOLEAN, event \in {"schedule", "push"},
          eval_result \in {None, Some(TRUE), Some(FALSE)} :
          call' = [fn |-> "build_evidence_pack", inventory |-> inv,
                   result |-> build_evidence_pack(detected, inv, eval_result, event)]
    /\ pc' = "returned"
    /\ UNCHANGED <<fs, tf_paths, trigger_event, inventory, criteria, summary, raised>>
    /\ UNCHANGED appVars

CallBuildCna01EvidencePack ==
    /\ pc = "call"
    /\ \E summary_status \in {"PASS", "FAIL", "ERROR"} :
          call' = [fn |-> "build_cna01_evidence_pack", inventory |-> TRUE,
                   result |-> build_cna01_evidence_pack(summary_status)]
    /\ pc' = "returned"
    /\ UNCHANGED <<fs, tf_paths, trigger_event, inventory, criteria, summary, raised>>
    /\ UNCHANGED appVars

InitPack ==
    /\ pc = "call"
    /\ call = NoCall
    /\ fs = NoFs
    /\ tf_paths = <<>>
    /\ trigger_event = ""
    /\ inventory = EmptyInventory
    /\ criteria = NoCriteria
    /\ summary = NoSummary
    /\ raised = FALSE
    /\ AppIdle

NextPack ==
    \/ CallComputeOverallStatus
    \/ CallEvaluateTerraform
    \/ CallBuildEvidencePack
    \/ CallBuildCna01EvidencePack

SpecPack == InitPack /\ [][NextPack]_vars

(***************************************************************************)
(* Claims.                                                                 *)
(***************************************************************************)
\* what the claims call an open CIDR and a wildcard protocol, stated without
\* the code's helpers
OpenCidrIn(xs) == \E i \in DOMAIN xs : xs[i] = "0.0.0.0/0" \/ xs[i] = "::/0"

IsWildcardProtocol(p) ==
    \/ p = <<"-", "1">>
    \/ /\ Len(p) = 3
       /\ p[1] \in {"a", "A"}
       /\ p[2] \in {"l", "L"}
       /\ p[3] \in {"l", "L"}

\* C1: is_unrestricted_rule returns True if and only if some CIDR of either list
\* is 0.0.0.0/0 or ::/0 and either the protocol is "-1"/"all" in any letter case
\* (ports irrelevant, even absent) or both ports are present and are 0-65535 or
\* one of them is -1; so an open CIDR with tcp 443-443 is not unrestricted and a
\* rule without an open CIDR never is.
C1_IsUnrestrictedIff ==
    call.fn = "is_unrestricted_rule" =>
        /\ call.unrestricted <=>
              /\ OpenCidrIn(call.cidr_blocks) \/ OpenCidrIn(call.ipv6_cidr_blocks)
              /\ \/ IsWildcardProtocol(call.protocol)
                 \/ /\ call.from_port # None
                    /\ call.to_port # None
                    /\ \/ call.from_port[1] = 0 /\ call.to_port[1] = 65535
                       \/ call.from_port[1] = -1
                       \/ call.to_port[1] = -1
        /\ (/\ call.protocol = <<"t", "c", "p">>
            /\ call.from_port = Some(443)
            /\ call.to_port = Some(443)) => ~call.unrestricted
        /\ (~OpenCidrIn(call.cidr_blocks) /\ ~OpenCidrIn(call.ipv6_cidr_blocks))
              => ~call.unrestricted

\* C1 witness: an upper-case wildcard protocol with an open IPv6 CIDR and no
\* ports was classified unrestricted.
C1_Witness ==
    /\ call.fn = "is_unrestricted_rule"
    /\ call.protocol = <<"A", "L", "L">>
    /\ call.cidr_blocks = <<>>
    /\ call.ipv6_cidr_blocks = <<"::/0">>
    /\ call.from_port = None
    /\ call.to_port = None
    /\ call.unrestricted

PortsOf(records) == {records[i].port : i \in DOMAIN records}

\* C2: check_sensitive_port_exposure returns no record without an open CIDR;
\* with an open CIDR and a wildcard protocol exactly one record per entry of the
\* 16-entry table; with an open CIDR and another protocol a record for table
\* port p if and only if both ports are present and from_port <= p <= to_port.
C2_SensitivePortExposure ==
    call.fn = "check_sensitive_port_exposure" =>
        LET open == OpenCidrIn(call.cidr_blocks) \/ OpenCidrIn(call.ipv6_cidr_blocks)
            wild == IsWildcardProtocol(call.protocol)
            e    == call.exposed
        IN  /\ Len(SENSITIVE_PORTS) = 16
            /\ ~open => e = <<>>
            /\ (open /\ wild) =>
                  /\ Len(e) = 16
                  /\ \A k \in 1..16 :
                        Cardinality({i \in DOMAIN e : e[i].port = SENSITIVE_PORTS[k].port}) = 1
            /\ (open /\ ~wild) =>
                  /\ \A k \in 1..16 :
                        LET p == SENSITIVE_PORTS[k].port
                        IN  (p \in PortsOf(e)) <=>
                               /\ call.from_port # None
                               /\ call.to_port # None
                               /\ call.from_port[1] <= p
                               /\ p <= call.to_port[1]
                  /\ \A i \in DOMAIN e : \E k \in 1..16 : e[i].port = SENSITIVE_PORTS[k].port

\* C2 witness: tcp 22-3389 from 0.0.0.0/0 exposes a proper, non-empty part of
\* the table, its upper bound 3389 included.
C2_Witness ==
    /\ call.fn = "check_sensitive_port_exposure"
    /\ call.cidr_blocks = <<"0.0.0.0/0">>
    /\ call.protocol = <<"t", "c", "p">>
    /\ call.from_port = Some(22)
    /\ call.to_port = Some(3389)
    /\ 3389 \in PortsOf(call.exposed)
    /\ Len(call.exposed) < 16

Evaluated == pc = "done" /\ ~raised

Groups == inventory.security_groups

\* the (group, record) positions of the inventory's exposure records
ExposurePositions ==
    {gj \in (DOMAIN Groups) \X (1..Len(SENSITIVE_PORTS)) :
        gj[2] <= Len(Groups[gj[1]].sensitive_ports_exposed)}

\* C3: with zero security groups evaluate_cna01 returns, for every
\* trigger_event, overall ERROR, results for exactly CNA01-A, -B and -C, each
\* ERROR with exactly one synthetic 'no security groups detected' finding, no
\* CNA01-D result, and security-group counts all 0.
C3_EmptyInventoryIsError ==
    (Evaluated /\ Groups = <<>>) =>
        /\ summary.status = "ERROR"
        /\ DOMAIN criteria = {"CNA01-A", "CNA01-B", "CNA01-C"}
        /\ \A id \in DOMAIN criteria :
              /\ criteria[id].id = id
              /\ criteria[id].status = "ERROR"
              /\ Len(criteria[id].findings) = 1
              /\ criteria[id].findings[1].issue = "No security groups detected"
              /\ criteria[id].findings[1].resource = "network_inventory"
        /\ summary.security_groups_evaluated = 0
        /\ summary.security_groups_compliant = 0
        /\ summary.security_groups_non_compliant = 0

\* C3 witness: an empty inventory was evaluated on a scheduled run.
C3_Witness ==
    /\ Evaluated
    /\ Groups = <<>>
    /\ trigger_event = "schedule"
    /\ summary.status = "ERROR"

\* C4: with at least one group, CNA01-A is FAIL if and only if some group has
\* a non-empty sensitive_ports_exposed, otherwise PASS; its findings are exactly
\* one per exposure record of every group, each of severity high and carrying
\* that group's resource address.
C4_CriterionA ==
    (Evaluated /\ Groups # <<>>) =>
        LET r == criteria["CNA01-A"]
            f == r.findings
        IN  /\ r.status \in {"PASS", "FAIL"}
            /\ r.status = "FAIL" <=>
                  \E g \in DOMAIN Groups : Groups[g].sensitive_ports_exposed # <<>>
            /\ Len(f) = Cardinality(ExposurePositions)
            /\ \A i \in DOMAIN f : f[i].severity = "high"
            /\ \A gj \in ExposurePositions :
                  LET a == Groups[gj[1]].resource_address
                      e == Groups[gj[1]].sensitive_ports_exposed[gj[2]]
                  IN  Cardinality({i \in DOMAIN f :
                                      f[i].resource = a /\ f[i].details = <<e>>})
                      = Cardinality({hk \in ExposurePositions :
                                      /\ Groups[hk[1]].resource_address = a
                                      /\ Groups[hk[1]].sensitive_ports_exposed[hk[2]] = e})

\* C4 witness: two groups with different addresses, two exposure records each.
C4_Witness ==
    /\ Evaluated
    /\ Len(Groups) = 2
    /\ Groups[1].resource_address # Groups[2].resource_address
    /\ Len(Groups[1].sensitive_ports_exposed) = 2
    /\ Len(Groups[2].sensitive_ports_exposed) = 2
    /\ Len(criteria["CNA01-A"].findings) = 4

\* C6: with at least one group, CNA01-B has exactly one finding per group
\* whose has_explicit_ingress is False, and is FAIL if and only if there is
\* such a group, otherwise PASS.
C6_CriterionB ==
    (Evaluated /\ Groups # <<>>) =>
        LET r == criteria["CNA01-B"]
            f == r.findings
            NoIngress == {g \in DOMAIN Groups : ~Groups[g].has_explicit_ingress}
        IN  /\ r.status \in {"PASS", "FAIL"}
            /\ r.status = "FAIL" <=> NoIngress # {}
            /\ Len(f) = Cardinality(NoIngress)
            /\ \A i \in DOMAIN f : f[i].issue = "No ingress rules defined"
            /\ \A g \in DOMAIN Groups :
                  LET a == Groups[g].resource_address
                  IN  Cardinality({i \in DOMAIN f : f[i].resource = a})
                      = Cardinality({h \in NoIngress : Groups[h].resource_address = a})

\* C6 witness: of two groups with different addresses exactly one has no
\* explicit ingress, and CNA01-B fails with one finding.
C6_Witness ==
    /\ Evaluated
    /\ Len(Groups) = 2
    /\ Groups[1].resource_address # Groups[2].resource_address
    /\ Groups[1].has_explicit_ingress
    /\ ~Groups[2].has_explicit_ingress
    /\ criteria["CNA01-B"].status = "FAIL"
    /\ Len(criteria["CNA01-B"].findings) = 1

\* C7: with at least one group, the CNA01-D result is fixed by trigger_event
\* alone: PASS without findings when it equals "schedule", FAIL with exactly
\* one medium-severity finding for any other value, whatever the inventory
\* holds.
C7_CriterionD ==
    (Evaluated /\ Groups # <<>>) =>
        LET r == criteria["CNA01-D"]
        IN  /\ trigger_event = "schedule" =>
                  r = [id |-> "CNA01-D", requirement |-> "required",
                       status |-> "PASS", findings |-> <<>>]
            /\ trigger_event # "schedule" =>
                  /\ r.id = "CNA01-D"
                  /\ r.status = "FAIL"
                  /\ Len(r.findings) = 1
                  /\ r.findings[1].severity = "medium"
                  /\ r.findings[1].resource = "workflow"
                  /\ r.findings[1].details = <<[trigger_event |-> trigger_event]>>

\* C7 witness: a fully compliant group evaluated on a push still fails CNA01-D.
C7_Witness ==
    /\ Evaluated
    /\ Len(Groups) = 1
    /\ trigger_event = "push"
    /\ summary.security_groups_compliant = 1
    /\ criteria["CNA01-D"].status = "FAIL"

\* C8: with at least one group, a group counts as compliant if and only if it
\* has no sensitive-port exposure, has explicit ingress, has explicit egress and
\* has no unrestricted egress; compliant + non-compliant = evaluated = number
\* of groups; the overall status is ERROR if any criterion is ERROR, else FAIL
\* if any criterion is FAIL, else PASS.
C8_SummaryRollUp ==
    (Evaluated /\ Groups # <<>>) =>
        LET Compliant == {g \in DOMAIN Groups :
                            /\ Groups[g].sensitive_ports_exposed = <<>>
                            /\ Groups[g].has_explicit_ingress
                            /\ Groups[g].has_explicit_egress
                            /\ ~Groups[g].has_unrestricted_egress}
            Statuses == {criteria[id].status : id \in DOMAIN criteria}
        IN  /\ summary.security_groups_compliant = Cardinality(Compliant)
            /\ summary.security_groups_compliant + summary.security_groups_non_compliant
                  = summary.security_groups_evaluated
            /\ summary.security_groups_evaluated = Len(Groups)
            /\ summary.status =
                  IF "ERROR" \in Statuses THEN "ERROR"
                  ELSE IF "FAIL" \in Statuses THEN "FAIL" ELSE "PASS"

\* C8 witness: one compliant and one non-compliant group (no explicit egress)
\* on a scheduled run: the overall status is FAIL.
C8_Witness ==
    /\ Evaluated
    /\ Len(Groups) = 2
    /\ trigger_event = "schedule"
    /\ summary.security_groups_compliant = 1
    /\ summary.security_groups_non_compliant = 1
    /\ \E g \in DOMAIN Groups :
          /\ ~Groups[g].has_explicit_egress
          /\ Groups[g].has_explicit_ingress
          /\ ~Groups[g].has_unrestricted_egress
          /\ Groups[g].sensitive_ports_exposed = <<>>
    /\ summary.status = "FAIL"

\* the (group, rule) positions of the inventory's unrestricted egress rules
UnrestrictedEgress ==
    UNION { {<<g, k>> : k \in {k \in DOMAIN Groups[g].egress_rules :
                                  Groups[g].egress_rules[k].is_unrestricted}} :
            g \in DOMAIN Groups }

\* the groups of the inventory that have no egress rule
NoEgress == {g \in DOMAIN Groups : Len(Groups[g].egress_rules) = 0}

\* what a CNA01-C finding cites of the egress rule at a position: the rule's
\* open CIDRs, its protocol and its port range
Cited(gk) ==
    LET rule == Groups[gk[1]].egress_rules[gk[2]]
        cidrs == rule.cidr_blocks \o rule.ipv6_cidr_blocks
    IN  [i \in 1..Cardinality({j \in DOMAIN cidrs : cidrs[j] \in {"0.0.0.0/0", "::/0"}}) |->
            cidrs[CHOOSE j \in DOMAIN cidrs :
                     /\ cidrs[j] \in {"0.0.0.0/0", "::/0"}
                     /\ Cardinality({h \in 1..j : cidrs[h] \in {"0.0.0.0/0", "::/0"}}) = i]]

\* C5: on an inventory produced by the extractor, a group's flags agree with
\* its egress rules; CNA01-C has one finding per unrestricted egress rule of
\* every group, citing the rule's open CIDRs, protocol and port range, exactly
\* one 'no egress rules' finding per group with zero egress rules, and no other
\* finding; it is FAIL if and only if some group has has_unrestricted_egress or
\* has no explicit egress, otherwise PASS.
C5_CriterionC ==
    (Evaluated /\ Groups # <<>>) =>
        LET r == criteria["CNA01-C"]
            f == r.findings
            OfRule == {i \in DOMAIN f : f[i].issue = "Unrestricted egress"}
            OfNoEgress == {i \in DOMAIN f : f[i].issue = "No egress rules defined"}
        IN  /\ \A g \in DOMAIN Groups :
                  /\ Groups[g].has_unrestricted_egress
                        <=> \E gk \in UnrestrictedEgress : gk[1] = g
                  /\ Groups[g].has_explicit_egress <=> g \notin NoEgress
            /\ OfRule \cup OfNoEgress = DOMAIN f
            /\ Cardinality(OfRule) = Cardinality(UnrestrictedEgress)
            /\ Cardinality(OfNoEgress) = Cardinality(NoEgress)
            /\ \A gk \in UnrestrictedEgress :
                  LET a == Groups[gk[1]].resource_address
                      rule == Groups[gk[1]].egress_rules[gk[2]]
                      d == [cidr_blocks |-> Cited(gk), protocol |-> rule.protocol,
                            from_port |-> rule.from_port, to_port |-> rule.to_port]
                  IN  /\ Cited(gk) # <<>>
                      /\ Cardinality({i \in OfRule : f[i].resource = a /\ f[i].details = <<d>>})
                         = Cardinality({hk \in UnrestrictedEgress :
                               /\ Groups[hk[1]].resource_address = a
                               /\ Cited(hk) = Cited(gk)
                               /\ Groups[hk[1]].egress_rules[hk[2]].protocol = rule.protocol
                               /\ Groups[hk[1]].egress_rules[hk[2]].from_port = rule.from_port
                               /\ Groups[hk[1]].egress_rules[hk[2]].to_port = rule.to_port})
            /\ \A g \in NoEgress :
                  LET a == Groups[g].resource_address
                  IN  Cardinality({i \in OfNoEgress : f[i].resource = a})
                      = Cardinality({h \in NoEgress : Groups[h].resource_address = a})
            /\ r.status \in {"PASS", "FAIL"}
            /\ r.status = "FAIL" <=>
                  \E g \in DOMAIN Groups :
                      Groups[g].has_unrestricted_egress \/ ~Groups[g].has_explicit_egress

\* C5 witness: a group without egress rules next to a group with one
\* unrestricted and one restricted egress rule: one finding each, the second
\* citing 0.0.0.0/0.
C5_Witness ==
    /\ Evaluated
    /\ Len(Groups) = 2
    /\ Len(Groups[1].egress_rules) = 0
    /\ Len(Groups[2].egress_rules) = 2
    /\ Cardinality(UnrestrictedEgress) = 1
    /\ Len(criteria["CNA01-C"].findings) = 2
    /\ criteria["CNA01-C"].findings[1].issue = "No egress rules defined"
    /\ criteria["CNA01-C"].findings[2].details[1].cidr_blocks = <<"0.0.0.0/0">>

\* C9: no exception propagates out of extraction and evaluation of a parsed
\* Terraform mapping whose fields are well typed, whatever its ports, port
\* ranges and port specs hold: the run never ends raised.
C9_NoExceptionPropagates == ~raised

SecurityGroupTypes ==
    {"aws_security_group", "azurerm_network_security_group", "google_compute_firewall"}

\* the directories a walk from the root reaches
ScannedDirs == {d \in DOMAIN fs : \A i \in DOMAIN d : KeptDir(d[i])}

\* the security-group resource blocks declared in the scanned .tf files, as
\* (directory, file, block) positions
DeclaredBlocks ==
    UNION { UNION { {<<d, j, i>> :
                        i \in {k \in DOMAIN fs[d][j].parsed.resource :
                                  fs[d][j].parsed.resource[k].type \in SecurityGroupTypes}} :
                    j \in {j \in DOMAIN fs[d] : IsTfFile(fs[d][j]) /\ fs[d][j].parsed.ok} } :
            d \in ScannedDirs }

\* C10: in a CNA-01 run every security-group block declared in a scanned .tf
\* file yields exactly one record: inventory.security_groups holds as many
\* records as blocks are declared, and security_groups_evaluated counts as many.
C10_OneRecordPerDeclaredBlock ==
    /\ (pc \in {"evaluate", "done"} /\ ~raised) =>
          Len(Groups) = Cardinality(DeclaredBlocks)
    /\ (Evaluated /\ Groups # <<>>) =>
          summary.security_groups_evaluated = Cardinality(DeclaredBlocks)

\* an inventory was extracted
HasInventory == pc \in {"evaluate", "done"} /\ ~raised

\* the security-group blocks of the file of a one-file workspace, in order
SgBlocks ==
    LET IsSg(block) == block.type \in SecurityGroupTypes
    IN  SelectSeq(fs[Root][1].parsed.resource, IsSg)

\* the strings of a raw plural field
RawStrings(raw) ==
    IF raw.t = "list" THEN raw.l ELSE IF raw.t = "str" THEN <<raw.s>> ELSE <<>>

\* a raw token equals a word in any letter case
IsWord(raw, word) == raw.t = "str" /\ Lower(raw.s) = word

\* an AWS rule block open to the world on a named protocol, without port bounds
AwsOpenNoPorts(rc) ==
    /\ rc.from_port.t = "absent"
    /\ rc.to_port.t = "absent"
    /\ rc.protocol.t = "str"
    /\ ~IsWildcardProtocol(rc.protocol.s)
    /\ OpenCidrIn(RawStrings(rc.cidr_blocks))

\* an Azure inbound allow rule open to the world on a named protocol, without
\* destination_port_range
AzureOpenNoPorts(rule) ==
    /\ IsWord(rule.access, <<"a", "l", "l", "o", "w">>)
    /\ IsWord(rule.direction, <<"i", "n", "b", "o", "u", "n", "d">>)
    /\ rule.destination_port_range.t = "absent"
    /\ rule.protocol.t = "str"
    /\ rule.protocol.s # <<"*">>
    /\ ~IsWildcardProtocol(rule.protocol.s)
    /\ rule.source_address_prefix.t = "str"
    /\ rule.source_address_prefix.s \in {"*", "Internet", "0.0.0.0/0"}

\* Azure: a security_rule is an inbound allow rule
AzureInbound(rule) ==
    /\ IsWord(rule.access, <<"a", "l", "l", "o", "w">>)
    /\ IsWord(rule.direction, <<"i", "n", "b", "o", "u", "n", "d">>)

\* a stored rule has no port bounds, is not unrestricted and exposes nothing
NothingAssumed(r) ==
    /\ r.from_port = None
    /\ r.to_port = None
    /\ ~r.is_unrestricted
    /\ check_sensitive_port_exposure(r.cidr_blocks, r.ipv6_cidr_blocks,
                                     r.from_port, r.to_port, r.protocol) = <<>>

\* C11: absent port bounds are never read as exposure: the rule stored for an
\* AWS ingress block without from_port/to_port, and for an Azure inbound allow
\* rule without destination_port_range, each open to the world on a
\* non-wildcard protocol, has no port bounds, is not unrestricted and exposes
\* no sensitive port; a group all of whose ingress rules are such has an empty
\* sensitive_ports_exposed.
C11_AbsentPortsNotExposed ==
    HasInventory =>
        \A b \in DOMAIN SgBlocks :
            LET block == SgBlocks[b]
                sg == Groups[b]
            IN  /\ block.type = "aws_security_group" =>
                      /\ \A i \in DOMAIN block.config.ingress :
                            AwsOpenNoPorts(block.config.ingress[i])
                                => NothingAssumed(sg.ingress_rules[i])
                      /\ (\A i \in DOMAIN block.config.ingress :
                              AwsOpenNoPorts(block.config.ingress[i]))
                            => sg.sensitive_ports_exposed = <<>>
                /\ block.type = "azurerm_network_security_group" =>
                      LET rules == block.config.security_rule
                          pos(i) == Cardinality({j \in 1..i : AzureInbound(rules[j])})
                      IN  /\ \A i \in DOMAIN rules :
                                AzureOpenNoPorts(rules[i])
                                    => NothingAssumed(sg.ingress_rules[pos(i)])
                          /\ (\A i \in DOMAIN rules : AzureOpenNoPorts(rules[i]))
                                => sg.sensitive_ports_exposed = <<>>

\* the canonical representation of a raw plural field: a scalar string is the
\* one-element list of it
CanonList(raw) == IF raw.t = "str" THEN ListOf(<<raw.s>>) ELSE raw

\* the canonical representation of a raw port: a numeric string is its integer
CanonPort(raw) ==
    IF raw.t = "str" /\ IsDigit(raw.s) THEN IntVal(DecimalValue(raw.s))
    ELSE raw

CanonAwsRule(rc) ==
    [rc EXCEPT !.from_port = CanonPort(@), !.to_port = CanonPort(@),
               !.cidr_blocks = CanonList(@), !.ipv6_cidr_blocks = CanonList(@)]

CanonAzureRule(rule) ==
    [rule EXCEPT !.destination_port_range = CanonPort(@),
                 !.source_address_prefixes = CanonList(@)]

CanonGcpAllow(allow) ==
    [allow EXCEPT !.ports = IF @.t = "str" THEN PortList(<<@.s>>) ELSE @]

\* the canonical representation of a resource block
CanonBlock(block) ==
    CASE block.type = "aws_security_group" ->
            [block EXCEPT !.config =
                [ingress |-> [i \in DOMAIN @.ingress |-> CanonAwsRule(@.ingress[i])],
                 egress  |-> [i \in DOMAIN @.egress |-> CanonAwsRule(@.egress[i])]]]
      [] block.type = "azurerm_network_security_group" ->
            [block EXCEPT !.config =
                [security_rule |-> [i \in DOMAIN @.security_rule |->
                                       CanonAzureRule(@.security_rule[i])]]]
      [] block.type = "google_compute_firewall" ->
            [block EXCEPT !.config =
                [@ EXCEPT !.source_ranges = CanonList(@),
                          !.destination_ranges = CanonList(@),
                          !.allow = [i \in DOMAIN @ |-> CanonGcpAllow(@[i])]]]
      [] OTHER -> block

\* C12: extraction does not depend on the representation of a field: the
\* groups extracted from a file are the groups extracted from the same file
\* with every scalar plural field written as a one-element list and every
\* numeric-string port written as an integer.
C12_RepresentationInsensitive ==
    HasInventory =>
        LET file == fs[Root][1]
            canonical == [ok |-> TRUE,
                          resource |-> [i \in DOMAIN file.parsed.resource |->
                                           CanonBlock(file.parsed.resource[i])]]
        IN  Groups = extract_security_groups(canonical, file.name).groups

\* the stored flag of a rule against the classifier on the rule's stored fields
FlagAgrees(r) ==
    r.is_unrestricted = is_unrestricted_rule(r.cidr_blocks, r.ipv6_cidr_blocks,
                                             r.from_port, r.to_port, r.protocol)

DerivedFieldsAgree(sg) ==
    /\ \A i \in DOMAIN sg.ingress_rules : FlagAgrees(sg.ingress_rules[i])
    /\ \A i \in DOMAIN sg.egress_rules : FlagAgrees(sg.egress_rules[i])
    /\ sg.has_explicit_ingress = (sg.ingress_rules # <<>>)
    /\ sg.has_explicit_egress = (sg.egress_rules # <<>>)
    /\ sg.has_unrestricted_ingress
         = (\E i \in DOMAIN sg.ingress_rules : sg.ingress_rules[i].is_unrestricted)
    /\ sg.has_unrestricted_egress
         = (\E i \in DOMAIN sg.egress_rules : sg.egress_rules[i].is_unrestricted)

\* C13: in every extracted group of every provider, each rule's is_unrestricted
\* is is_unrestricted_rule of the rule's own stored CIDR lists, ports and
\* protocol, has_explicit_ingress / has_explicit_egress says that the rule list
\* is non-empty, and has_unrestricted_ingress / has_unrestricted_egress says
\* that some rule of the list is flagged.
C13_DerivedFieldsAgree ==
    HasInventory => \A k \in DOMAIN Groups : DerivedFieldsAgree(Groups[k])

\* a group with two egress rules of which exactly one is unrestricted, next to
\* a group without any egress rule
C13_Witness ==
    /\ HasInventory
    /\ \E k \in DOMAIN Groups :
          /\ Len(Groups[k].egress_rules) = 2
          /\ Groups[k].egress_rules[1].is_unrestricted
          /\ ~Groups[k].egress_rules[2].is_unrestricted
          /\ Groups[k].has_unrestricted_egress
    /\ \E k \in DOMAIN Groups :
          ~Groups[k].has_explicit_egress /\ ~Groups[k].has_unrestricted_egress

\* check_sensitive_port_exposure on the stored fields of the rules of a list,
\* concatenated in rule order
RECURSIVE ExposureOf(_)
ExposureOf(rules) ==
    IF rules = <<>> THEN <<>>
    ELSE check_sensitive_port_exposure(Head(rules).cidr_blocks, Head(rules).ipv6_cidr_blocks,
                                       Head(rules).from_port, Head(rules).to_port,
                                       Head(rules).protocol)
         \o ExposureOf(Tail(rules))

\* C14: in every extracted group of every provider, sensitive_ports_exposed is
\* the concatenation, in rule order, of check_sensitive_port_exposure over the
\* ingress rules; no egress rule adds a record.
C14_ExposureFromIngressOnly ==
    HasInventory =>
        \A k \in DOMAIN Groups :
            Groups[k].sensitive_ports_exposed = ExposureOf(Groups[k].ingress_rules)

\* a group with an exposing ingress rule and an egress rule that would expose
\* sensitive ports if it were ingress
C14_Witness ==
    /\ HasInventory
    /\ \E k \in DOMAIN Groups :
          /\ ExposureOf(Groups[k].ingress_rules) # <<>>
          /\ ExposureOf(Groups[k].egress_rules) # <<>>
          /\ Groups[k].sensitive_ports_exposed # <<>>

\* the paths of a list do not decrease
NonDecreasing(paths) ==
    \A i \in DOMAIN paths : \A j \in DOMAIN paths : i < j => ~StrLess(paths[j], paths[i])

\* C15: the inventory is ordered deterministically: source_files is sorted by
\* path, security_groups is sorted by the path of the file of each group, and
\* the inventory is the same for every order in which the walk may yield the
\* directories.
C15_DeterministicOrder ==
    HasInventory =>
        /\ NonDecreasing(inventory.source_files)
        /\ NonDecreasing([k \in DOMAIN Groups |-> Groups[k].source_file])
        /\ \A order \in ListingOrders :
              extract_network_inventory(tf_paths, order).inventory = inventory

\* C16: with at least one security group in the inventory, all four criteria
\* CNA01-A..D are returned with status PASS or FAIL and the overall status is
\* PASS or FAIL, for every trigger_event; a status ERROR, of a criterion or
\* overall, is returned for the empty inventory only.
C16_ErrorOnlyWhenEmpty ==
    Evaluated =>
        /\ Groups # <<>> =>
              /\ DOMAIN criteria = {"CNA01-A", "CNA01-B", "CNA01-C", "CNA01-D"}
              /\ \A id \in DOMAIN criteria : criteria[id].status \in {"PASS", "FAIL"}
              /\ summary.status \in {"PASS", "FAIL"}
        /\ (summary.status = "ERROR" \/ \E id \in DOMAIN criteria : criteria[id].status = "ERROR")
              => Groups = <<>>

\* two groups that fail all four criteria on a push
C16_Witness ==
    /\ Evaluated
    /\ Len(Groups) = 2
    /\ trigger_event # "schedule"
    /\ \A id \in DOMAIN criteria : criteria[id].status = "FAIL" /\ criteria[id].findings # <<>>
    /\ summary.status = "FAIL"

\* the lists with the elements of xs in another order
Reorderings(xs) == {[i \in DOMAIN xs |-> xs[q[i]]] : q \in Perms(DOMAIN xs)}

\* a group with its rule lists in another order
ReorderedGroups(sg) ==
    {[sg EXCEPT !.ingress_rules = ins, !.egress_rules = outs] :
        ins \in Reorderings(sg.ingress_rules), outs \in Reorderings(sg.egress_rules)}

\* the inventories whose group list and rule lists are permutations of those
\* of inv
PermutedInventories(inv) ==
    LET sgs == inv.security_groups
        reordered == {g \in [DOMAIN sgs -> UNION {ReorderedGroups(sgs[k]) : k \in DOMAIN sgs}] :
                         \A k \in DOMAIN sgs : g[k] \in ReorderedGroups(sgs[k])}
    IN  {[inv EXCEPT !.security_groups = gs] : gs \in UNION {Reorderings(g) : g \in reordered}}

\* the number of times each element occurs in xs
BagOf(xs) == [x \in ToSet(xs) |-> Cardinality({i \in DOMAIN xs : xs[i] = x})]

SameVerdict(crit, summ, other) ==
    /\ DOMAIN other.criteria = DOMAIN crit
    /\ \A id \in DOMAIN crit :
          /\ other.criteria[id].status = crit[id].status
          /\ BagOf(other.criteria[id].findings) = BagOf(crit[id].findings)
    /\ other.summary = summ

\* C17: evaluate_cna01 on an inventory whose security_groups list and rule
\* lists are a permutation of those of the evaluated inventory returns the same
\* status for every criterion, the same multiset of findings per criterion,
\* the same summary counts and the same overall status.
C17_OrderInsensitive ==
    Evaluated =>
        \A other \in PermutedInventories(inventory) :
            SameVerdict(criteria, summary, evaluate_cna01(other, trigger_event))

\* an evaluated inventory of two groups, one of them with two different
\* egress rules, for which another order gives the findings in another order
C17_Witness ==
    /\ Evaluated
    /\ Len(Groups) = 2
    /\ \E k \in DOMAIN Groups :
          Len(Groups[k].egress_rules) = 2 /\ Groups[k].egress_rules[1] # Groups[k].egress_rules[2]
    /\ \E other \in PermutedInventories(inventory) :
          evaluate_cna01(other, trigger_event).criteria["CNA01-C"].findings
              # criteria["CNA01-C"].findings

\* the paths of the .tf files of the workspace that do not parse
UnparsablePaths ==
    UNION {{rel_path([dir |-> d, file |-> fs[d][i]]) :
               i \in {j \in DOMAIN fs[d] : IsTfFile(fs[d][j]) /\ ~fs[d][j].parsed.ok}} :
           d \in Dirs}

\* the walked files with every unparsable one replaced by a file without resources
WithoutResources(found) ==
    [k \in DOMAIN found |->
        IF found[k].file.parsed.ok THEN found[k]
        ELSE [found[k] EXCEPT !.file.parsed = [ok |-> TRUE, resource |-> <<>>]]]

AllFindings == Flatten([i \in DOMAIN CNA01_CRITERIA_DEFINITIONS |->
                          IF CNA01_CRITERIA_DEFINITIONS[i] \in DOMAIN criteria
                          THEN criteria[CNA01_CRITERIA_DEFINITIONS[i]].findings ELSE <<>>])

\* C18: a .tf file that does not parse is skipped: the extraction raises
\* nothing, no group and no finding names the file, and the inventory is the
\* one a walk gives when every such file holds no resources.
C18_UnparsableFileSkipped ==
    (pc \in {"evaluate", "done"} /\ UnparsablePaths # {}) =>
        /\ ~raised
        /\ \A k \in DOMAIN Groups : Groups[k].source_file \notin UnparsablePaths
        /\ \A k \in DOMAIN AllFindings : AllFindings[k].source_file \notin UnparsablePaths
        /\ \E order \in ListingOrders :
              inventory = inventory_of(WithoutResources(walked_files(tf_paths, order))).inventory

\* an evaluated workspace with an unparsable m.tf next to a file with a group
\* that has findings
C18_Witness ==
    /\ Evaluated
    /\ <<"m", ".", "t", "f">> \in UnparsablePaths
    /\ Groups # <<>>
    /\ AllFindings # <<>>
    /\ \E k \in DOMAIN inventory.source_files : inventory.source_files[k] \in UnparsablePaths

\* Azure: a security_rule is an outbound allow rule
AzureOutbound(rule) ==
    /\ IsWord(rule.access, <<"a", "l", "l", "o", "w">>)
    /\ IsWord(rule.direction, <<"o", "u", "t", "b", "o", "u", "n", "d">>)

\* the number of elements of xs that satisfy Test
Count(xs, Test(_)) == Cardinality({i \in DOMAIN xs : Test(xs[i])})

AzureRulesPlaced(rules, sg) ==
    /\ Len(sg.ingress_rules) = Count(rules, AzureInbound)
    /\ Len(sg.egress_rules) = Count(rules, AzureOutbound)
    /\ sg.has_explicit_ingress = (Count(rules, AzureInbound) > 0)
    /\ sg.has_explicit_egress = (Count(rules, AzureOutbound) > 0)

\* C19: the group of an azurerm_network_security_group has one ingress rule
\* per security_rule with access allow and direction inbound, one egress rule
\* per security_rule with access allow and direction outbound (in any letter
\* case) and no rule for any other security_rule; has_explicit_ingress and
\* has_explicit_egress count these rules only, so both are False when every
\* security_rule denies.
C19_AzureAllowRulesOnly ==
    HasInventory =>
        \A k \in DOMAIN SgBlocks :
            SgBlocks[k].type = "azurerm_network_security_group" =>
                AzureRulesPlaced(SgBlocks[k].config.security_rule, Groups[k])

\* an NSG with one inbound allow rule and one deny rule
C19_Witness ==
    /\ HasInventory
    /\ \E k \in DOMAIN SgBlocks :
          /\ SgBlocks[k].type = "azurerm_network_security_group"
          /\ Len(SgBlocks[k].config.security_rule) = 2
          /\ Count(SgBlocks[k].config.security_rule, AzureInbound) = 1
          /\ Count(SgBlocks[k].config.security_rule, AzureOutbound) = 0
          /\ Len(Groups[k].ingress_rules) = 1
          /\ ~Groups[k].has_explicit_egress

\* the port bounds the port specs of the extraction inputs stand for
GcpPortBounds(spec) ==
    CASE spec = <<"2", "2">> -> <<22, 22>>
      [] spec = <<"4", "4", "3">> -> <<443, 443>>
      [] spec = <<"3", "3", "8", "9">> -> <<3389, 3389>>
      [] spec = <<"8", "0", "-", "9", "0">> -> <<80, 90>>

\* the ports and protocol of the rules one allow block stands for
GcpRulesOfAllow(allow) ==
    LET specs == RawStrings(allow.ports)
        protocol == IF allow.protocol.t = "absent" \/ allow.protocol.s = <<"a", "l", "l">>
                    THEN <<"-", "1">> ELSE allow.protocol.s
    IN  IF specs = <<>>
        THEN <<[from_port |-> Some(0), to_port |-> Some(65535), protocol |-> protocol]>>
        ELSE [j \in DOMAIN specs |-> [from_port |-> Some(GcpPortBounds(specs[j])[1]),
                                      to_port   |-> Some(GcpPortBounds(specs[j])[2]),
                                      protocol  |-> protocol]]

GcpIsIngress(config) ==
    config.direction.t = "absent" \/ IsWord(config.direction, <<"i", "n", "g", "r", "e", "s", "s">>)

GcpIsEgress(config) == IsWord(config.direction, <<"e", "g", "r", "e", "s", "s">>)

\* the rules of a list have the given ports and protocols, in order, and all
\* the given CIDR list
GcpRulesAre(rules, expected, cidr_blocks) ==
    /\ Len(rules) = Len(expected)
    /\ \A i \in DOMAIN rules :
          /\ rules[i].from_port = expected[i].from_port
          /\ rules[i].to_port = expected[i].to_port
          /\ rules[i].protocol = expected[i].protocol
          /\ rules[i].cidr_blocks = cidr_blocks

GcpFirewallNormalized(config, sg) ==
    LET expected == Flatten([i \in DOMAIN config.allow |-> GcpRulesOfAllow(config.allow[i])])
    IN  /\ GcpIsIngress(config) =>
              /\ GcpRulesAre(sg.ingress_rules, expected, RawStrings(config.source_ranges))
              /\ sg.egress_rules = <<>>
        /\ GcpIsEgress(config) =>
              /\ GcpRulesAre(sg.egress_rules, expected, RawStrings(config.destination_ranges))
              /\ sg.ingress_rules = <<>>

\* C20: the group of a google_compute_firewall has one rule per port spec of
\* each allow block and one rule (0, 65535) for an allow block without ports,
\* in order; all rules are ingress rules with the source_ranges when direction
\* is INGRESS or absent and egress rules with the destination_ranges when it
\* is EGRESS; a port spec "A-B" gives (A, B), a bare number (A, A), and the
\* protocol "all" gives "-1".
C20_GcpFanOut ==
    HasInventory =>
        \A k \in DOMAIN SgBlocks :
            SgBlocks[k].type = "google_compute_firewall" =>
                GcpFirewallNormalized(SgBlocks[k].config, Groups[k])

\* an EGRESS firewall with an allow block of two port specs and an allow block
\* without ports: three egress rules
C20_Witness ==
    /\ HasInventory
    /\ \E k \in DOMAIN SgBlocks :
          /\ SgBlocks[k].type = "google_compute_firewall"
          /\ GcpIsEgress(SgBlocks[k].config)
          /\ Len(SgBlocks[k].config.allow) = 2
          /\ Len(Groups[k].egress_rules) = 3
          /\ Groups[k].egress_rules[1].from_port = Some(80)
          /\ Groups[k].egress_rules[1].to_port = Some(90)
          /\ Groups[k].egress_rules[2].from_port = Some(3389)
          /\ Groups[k].egress_rules[3].to_port = Some(65535)
          /\ Groups[k].egress_rules[3].protocol = <<"-", "1">>
          /\ Groups[k].egress_rules[3].cidr_blocks = <<"0.0.0.0/0">>

\* C25: for an extracted inventory with at least one group, CNA01-A, CNA01-B
\* and CNA01-C are all PASS if and only if security_groups_non_compliant = 0.
C25_CriteriaAgreeWithSummary ==
    (Evaluated /\ Groups # <<>>) =>
        ((\A id \in {"CNA01-A", "CNA01-B", "CNA01-C"} : criteria[id].status = "PASS")
            <=> summary.security_groups_non_compliant = 0)

\* an evaluated inventory of two groups, both compliant, with A, B and C PASS
C25_Witness ==
    /\ Evaluated
    /\ Len(Groups) = 2
    /\ summary.security_groups_non_compliant = 0
    /\ summary.security_groups_compliant = 2
    /\ \A id \in {"CNA01-A", "CNA01-B", "CNA01-C"} : criteria[id].status = "PASS"

\* C26: in every extracted group, has_unrestricted_ingress implies a non-empty
\* sensitive_ports_exposed, so that the group has a CNA01-A finding.
C26_UnrestrictedIngressIsExposed ==
    HasInventory =>
        \A k \in DOMAIN Groups :
            Groups[k].has_unrestricted_ingress => Groups[k].sensitive_ports_exposed # <<>>

\* C30: the group of a google_compute_firewall has an empty ingress_rules or an
\* empty egress_rules, is cited by a CNA01-B or a CNA01-C finding and is not
\* counted in security_groups_compliant.
C30_GcpNeverCompliant ==
    Evaluated =>
        LET Gcp == {k \in DOMAIN Groups : Groups[k].resource_address[1] = "google_compute_firewall"}
            bc == criteria["CNA01-B"].findings \o criteria["CNA01-C"].findings
        IN  /\ \A k \in Gcp :
                  /\ Groups[k].ingress_rules = <<>> \/ Groups[k].egress_rules = <<>>
                  /\ \E i \in DOMAIN bc : bc[i].resource = Groups[k].resource_address
            /\ summary.security_groups_compliant <= Len(Groups) - Cardinality(Gcp)

\* an evaluated INGRESS firewall with rules, none of them exposing a port
C30_Witness ==
    /\ Evaluated
    /\ Len(Groups) = 1
    /\ Groups[1].resource_address[1] = "google_compute_firewall"
    /\ Len(Groups[1].ingress_rules) = 2
    /\ Groups[1].sensitive_ports_exposed = <<>>
    /\ criteria["CNA01-A"].status = "PASS"
    /\ criteria["CNA01-C"].status = "FAIL"
    /\ summary.security_groups_compliant = 0

\* C21: a delivery whose signature header is missing or differs from
\* "sha256=" + HMAC-SHA256(webhook secret, raw body) is answered 401, schedules
\* no process_workflow_run and makes no GitHub API call; a delivery that
\* schedules process_workflow_run carries a valid signature, has the event type
\* workflow_run and is answered 202 'accepted'; GitHub API calls are made only
\* on behalf of a scheduled task.
C21_UnauthenticatedProcessesNothing ==
    [][ /\ response'.delivery # response.delivery =>
            LET req == response'.request[1]
                valid == req.signature =
                           Some(<<"sha256=", hmac_sha256("github_webhook_secret", req.body)>>)
            IN  /\ ~valid => /\ response'.status_code = 401
                             /\ tasks' = tasks
                             /\ api_calls' = api_calls
                /\ tasks' # tasks => /\ valid
                                     /\ req.event = "workflow_run"
                                     /\ response'.status_code = 202
                                     /\ response'.status = "accepted"
        /\ api_calls' # api_calls => tasks # <<>> ]_vars

\* a forged signature was answered 401 after an earlier delivery was accepted
\* and processed
C21_Witness ==
    /\ response.delivery = 2
    /\ response.status_code = 401
    /\ response.request[1].signature # None
    /\ response.request[1].signature[1] # <<>>
    /\ Len(tasks) = 1
    /\ api_calls > 0

\* C22: every check run is 'completed' and its conclusion is success exactly
\* when the status of its manifest is PASS, failure exactly when it is FAIL and
\* neutral otherwise, the status of a manifest being summary.status when the
\* manifest carries a (non-empty) summary and the top-level status otherwise.
C22_ConclusionReflectsStatus ==
    \A i \in DOMAIN check_runs :
        LET m == check_runs[i].output
            status == IF m.summary = Some("dict") THEN m.summary_status ELSE m.status
        IN  /\ check_runs[i].status = "completed"
            /\ check_runs[i].conclusion \in {"success", "failure", "neutral"}
            /\ check_runs[i].conclusion = "success" <=> status = Some("PASS")
            /\ check_runs[i].conclusion = "failure" <=> status = Some("FAIL")

\* two deliveries were processed to the end; one check run was made from an
\* ERROR manifest and the KSI-CNA-01 check run concludes success
C22_Witness ==
    /\ \E i \in DOMAIN check_runs : check_runs[i].output.status = Some("ERROR")
    /\ \E i \in DOMAIN check_runs : /\ check_runs[i].conclusion = "success"
                                     /\ check_runs[i].name = check_run_name("KSI-CNA-01")
    /\ \A t \in DOMAIN tasks : tasks[t].at = "done"
    /\ Len(tasks) = 2

\* C24: for a commit SHA and a KSI there is at most one check run, however
\* the tasks of the deliveries interleave.
C24_AtMostOneCheckRun ==
    \A i, j \in DOMAIN check_runs :
        (check_runs[i].head_sha = check_runs[j].head_sha /\ check_runs[i].name = check_runs[j].name)
            => i = j

\* C23: compute_overall_status returns ERROR when some criterion is ERROR,
\* otherwise FAIL when some criterion is FAIL, otherwise PASS; when the status
\* is not PASS the reasons name exactly the ERROR and FAIL criteria, one reason
\* each.
C23_OverallStatus ==
    (pc = "returned" /\ call.fn = "compute_overall_status") =>
        LET cs == call.criteria
            Ids(status) == {cs[i].id : i \in {j \in DOMAIN cs : cs[j].status = status}}
            reasons == call.result.reasons
        IN  /\ call.result.status =
                  (IF Ids("ERROR") # {} THEN "ERROR"
                   ELSE IF Ids("FAIL") # {} THEN "FAIL" ELSE "PASS")
            /\ call.result.status # "PASS" =>
                  /\ {reasons[i][1] : i \in DOMAIN reasons} = Ids("ERROR") \cup Ids("FAIL")
                  /\ Len(reasons) = Cardinality(Ids("ERROR") \cup Ids("FAIL"))

\* an ERROR criterion after a FAIL criterion and a SKIP criterion
C23_Witness ==
    /\ pc = "returned"
    /\ call.fn = "compute_overall_status"
    /\ Len(call.criteria) = 3
    /\ call.criteria[1].status = "FAIL"
    /\ call.criteria[2].status = "SKIP"
    /\ call.criteria[3].status = "ERROR"
    /\ call.result.status = "ERROR"
    /\ Len(call.result.reasons) = 2

\* C27: in both builds hashes.sha256 is written after every other evidence
\* file, holds exactly one line for each file written before it, among them
\* evaluation_manifest.json and manifest.json, no hashed file is written again
\* before the zip is complete, and the zip holds exactly the hashed files and
\* hashes.sha256.
C27_HashesCoverThePack ==
    (pc = "returned" /\ call.fn \in {"build_evidence_pack", "build_cna01_evidence_pack"}) =>
        LET b == call.result.builder
            log == b.log
            hashes_path == <<"evidence", b.ksi, "hashes.sha256">>
            Writes(p) == {i \in DOMAIN log : log[i] = [op |-> "write", path |-> p]}
            Evidence(i) == log[i].op = "write" /\ log[i].path[1] = "evidence"
            Hashed == {b.hashes[i] : i \in DOMAIN b.hashes}
            Zipped == {b.zip[i] : i \in DOMAIN b.zip}
            LastZip == CHOOSE i \in DOMAIN log :
                           log[i].op = "zip" /\ \A j \in DOMAIN log : log[j].op = "zip" => j <= i
        IN  /\ Cardinality(Writes(hashes_path)) = 1
            /\ \A h \in Writes(hashes_path) :
                  /\ \A i \in DOMAIN log : (Evidence(i) /\ i # h) => i < h
                  /\ Hashed = {log[i].path : i \in {j \in 1..(h - 1) : Evidence(j)}}
                  /\ \A i \in DOMAIN log :
                        (h < i /\ i < LastZip /\ log[i].op = "write") => log[i].path \notin Hashed
            /\ Len(b.hashes) = Cardinality(Hashed)
            /\ <<"evidence", b.ksi, "evaluation_manifest.json">> \in Hashed
            /\ <<"evidence", b.ksi, "manifest.json">> \in Hashed
            /\ Zipped = Hashed \cup {hashes_path}
            /\ Len(b.zip) = Cardinality(Zipped)

\* an MLA-05 pack with a Terraform inventory: eight files in the zip
C27_Witness ==
    /\ pc = "returned"
    /\ call.fn = "build_evidence_pack"
    /\ call.inventory
    /\ Len(call.result.builder.zip) = 8
    /\ Len(call.result.builder.hashes) = 7

\* C28: every file in the zip of an evidence pack has an entry in the files
\* list of manifest.json.
C28_ManifestIndexesEveryFile ==
    (pc = "returned" /\ call.fn \in {"build_evidence_pack", "build_cna01_evidence_pack"}) =>
        LET b == call.result.builder
        IN  \A i \in DOMAIN b.zip : \E j \in DOMAIN b.files : b.files[j] = b.zip[i]

============================================================================
